---- MODULE Spec2Model ----
(***************************************************************************)
(* Verification model of database-editor: the relational <-> hierarchical *)
(* bridge (ownership tree, nester, flattener), the diff engine, the        *)
(* dependency orderer and SQL emitter, and the sync orchestrator           *)
(* (DatabaseEditor, SyncEngine, the CLI commands).                         *)
(*                                                                         *)
(* Values are strings; NULL is SQL/JSON null and UNDEF is JavaScript's     *)
(* undefined (a key that is absent from an object).  A row is a function   *)
(* from column names to values.  A Map keyed by table name is a function   *)
(* whose keys are iterated in schema order.                                *)
(***************************************************************************)
EXTENDS Integers, Sequences, FiniteSets, TLC

VARIABLES
    schema,     \* the Schema the editor was constructed with
    db,         \* committed + in-transaction rows of the database, per table
    file,       \* the user-facing JSON file (NoFile when absent)
    baseFile,   \* the base snapshot file (NoFile when absent)
    op,         \* the operation in progress or, when pc is "idle", the last one
    pc,         \* position inside the operation in progress
    dataset,    \* the FlatDataset parsed from the file by the operation
    changes,    \* the ordered ChangeSet the operation is applying
    previewed,  \* the ChangeSet printed by the CLI before applying
    stmtIdx,    \* index of the next generated statement to send
    snapshot,   \* rows of the database when BEGIN was executed
    sent,       \* the queries the driver received during this operation
    result,     \* outcome of the last finished operation
    errAt,      \* kind of driver call whose error the last operation rejected with
    dbAtStart,  \* rows the database holds without the operation's transaction
    baseAtStart,\* base file when the operation started
    faults,     \* calls the driver has rejected with an error of its own
    edits,      \* edits the user has made to the file
    writes,     \* statements other clients have committed
    ops,        \* commands of the editor run on the file
    dumped,     \* the options the file was dumped with
    fileAtStart,\* the user-facing file when the operation started
    in1,        \* input of the pure-function specifications
    in2,        \* second input of the pure-function specifications
    out         \* output of the pure-function specifications

vars == <<schema, db, file, baseFile, op, pc, dataset, changes, previewed,
          stmtIdx, snapshot, sent, result, errAt, dbAtStart, baseAtStart,
          faults, edits, writes, ops, dumped, fileAtStart, in1, in2, out>>

\* ------------------------------------------------------------------------
\* Bounds
\* ------------------------------------------------------------------------
MaxEdits == 1
MaxWrites == 1
MaxFaults == 1
MaxOps == 1

\* ------------------------------------------------------------------------
\* Values
\* ------------------------------------------------------------------------
NULL == "null"
UNDEF == "undefined"
NoFile == [kind |-> "none"]
NoDump == [kind |-> "none"]

\* row[col] in JavaScript: undefined when the key is absent
Get(row, col) == IF col \in DOMAIN row THEN row[col] ELSE UNDEF

Range(s) == {s[i] : i \in 1..Len(s)}

RECURSIVE Concat(_)
Concat(ss) == IF Len(ss) = 0 THEN <<>> ELSE Head(ss) \o Concat(Tail(ss))

\* ------------------------------------------------------------------------
\* Schema (model.ts)
\* ------------------------------------------------------------------------
Column(n) == [name |-> n, isGenerated |-> FALSE]

\* a column the server computes (GENERATED ALWAYS AS ... STORED)
GeneratedColumn(n) == [name |-> n, isGenerated |-> TRUE]

OrgSchema ==
    [tables |-> <<
        [name |-> "Organization", columns |-> <<Column("id"), Column("name")>>,
         primaryKey |-> <<"id">>],
        [name |-> "Project", columns |-> <<Column("id"), Column("organizationId")>>,
         primaryKey |-> <<"id">>] >>,
     relationships |-> <<
        [id |-> "Project_organizationId_fkey",
         fromTable |-> "Project", fromColumns |-> <<"organizationId">>,
         toTable |-> "Organization", toColumns |-> <<"id">>,
         onDelete |-> "CASCADE"] >>]

TableNames(S) == [i \in 1..Len(S.tables) |-> S.tables[i].name]

HasTable(S, t) == \E i \in 1..Len(S.tables) : S.tables[i].name = t

\* schema.tables.get(t)
TableOf(S, t) == S.tables[CHOOSE i \in 1..Len(S.tables) : S.tables[i].name = t]

ColumnNames(tbl) == {tbl.columns[i].name : i \in 1..Len(tbl.columns)}

\* ------------------------------------------------------------------------
\* Ownership tree (ownershipTree.ts)
\* ------------------------------------------------------------------------
\* Table names in ascending order, as Array.prototype.sort orders them; the
\* names of one schema are all capitalised or all lower case, and localeCompare
\* orders such names the same way.
NameOrder == <<"Organization", "Project", "Task", "posts", "users">>

NameRank(n) == CHOOSE i \in 1..Len(NameOrder) : NameOrder[i] = n

RECURSIVE SortNames(_)
SortNames(set) ==
    IF set = {} THEN <<>>
    ELSE LET m == CHOOSE x \in set : \A y \in set : NameRank(x) <= NameRank(y)
         IN  <<m>> \o SortNames(set \ {m})

\* classifyRelationship without the test for a self-reference
classifyByAction(rel) ==
    IF rel.onDelete = "CASCADE" THEN "composition" ELSE "reference"

classifyRelationship(rel) ==
    IF rel.fromTable = rel.toTable THEN "reference"
    ELSE IF rel.onDelete = "CASCADE" THEN "composition"
    ELSE "reference"

\* the comparator of selectDominant: negative, zero or positive
CompareCompositions(a, b) ==
    IF Len(a.fromColumns) # Len(b.fromColumns)
    THEN Len(a.fromColumns) - Len(b.fromColumns)
    ELSE NameRank(a.toTable) - NameRank(b.toTable)

\* selectDominant without the sort: the first composition of the schema
selectFirstComposition(compositions) == compositions[1]

\* sorted[0] of a stable sort: the earliest of the least elements
selectDominant(compositions) ==
    LET least == {i \in 1..Len(compositions) :
                    \A j \in 1..Len(compositions) :
                        CompareCompositions(compositions[i], compositions[j]) <= 0}
        first == CHOOSE i \in least : \A j \in least : i <= j
    IN  compositions[first]

\* incomingCompositions.get(child): the compositions of a child, in schema order
IncomingCompositions(S, child) ==
    SelectSeq(S.relationships,
              LAMBDA r : classifyRelationship(r) = "composition" /\ r.fromTable = child)

\* the keys of incomingCompositions in Map insertion order: each child table at
\* the place of its first composition
RECURSIVE ChildOrder(_, _)
ChildOrder(rels, seen) ==
    IF Len(rels) = 0 THEN <<>>
    ELSE LET r == Head(rels)
         IN  IF classifyRelationship(r) = "composition" /\ r.fromTable \notin seen
             THEN <<r.fromTable>> \o ChildOrder(Tail(rels), seen \cup {r.fromTable})
             ELSE ChildOrder(Tail(rels), seen)

MakeEdge(rel) ==
    [parentTable |-> rel.toTable, childTable |-> rel.fromTable,
     relationship |-> rel, foreignKeyColumns |-> rel.fromColumns]

\* buildOwnershipTree without the test dominantParent.has: every table a root
buildOwnershipTreeAllRoots(S) ==
    LET order == ChildOrder(S.relationships, {})
        dominantParent == [c \in Range(order) |->
                              selectDominant(IncomingCompositions(S, c))]
    IN  [roots |-> SortNames(Range(TableNames(S))),
         childOrder |-> order,
         dominantParent |-> dominantParent]

buildOwnershipTree(S) ==
    LET order == ChildOrder(S.relationships, {})
        dominantParent == [c \in Range(order) |->
                              selectDominant(IncomingCompositions(S, c))]
    IN  [roots |-> SortNames({t \in Range(TableNames(S)) : t \notin Range(order)}),
         childOrder |-> order,
         dominantParent |-> dominantParent]

\* tree.getChildren(tableName): the edges of childrenMap, in insertion order
getChildren(T, tableName) ==
    LET kids == SelectSeq(T.childOrder,
                          LAMBDA c : T.dominantParent[c].toTable = tableName)
    IN  [i \in 1..Len(kids) |-> MakeEdge(T.dominantParent[kids[i]])]

NoEdge == [kind |-> "undefined"]

\* tree.getDominantParent(tableName)
getDominantParent(T, tableName) ==
    IF tableName \in DOMAIN T.dominantParent
    THEN MakeEdge(T.dominantParent[tableName])
    ELSE NoEdge

\* tree.classifiedRelationships: the references in schema order, then the
\* compositions of each child table
classifiedRelationships(S) ==
    LET refs == SelectSeq(S.relationships,
                          LAMBDA r : classifyRelationship(r) # "composition")
        order == ChildOrder(S.relationships, {})
        OfChild(c) ==
            LET compositions == IncomingCompositions(S, c)
                dominant == selectDominant(compositions)
            IN  [i \in 1..Len(compositions) |->
                    [relationship |-> compositions[i], kind |-> "composition",
                     isDominant |-> compositions[i] = dominant]]
    IN  [i \in 1..Len(refs) |->
            [relationship |-> refs[i], kind |-> classifyRelationship(refs[i]),
             isDominant |-> FALSE]]
        \o Concat([i \in 1..Len(order) |-> OfChild(order[i])])

\* toCamelCase (nested.ts) lowercases the first letter of a table name
CamelNames == [Organization |-> "organization", Project |-> "project", Task |-> "task"]

toCamelCase(tableName) ==
    IF tableName \in DOMAIN CamelNames THEN CamelNames[tableName] ELSE tableName

\* ------------------------------------------------------------------------
\* Markers (model.ts, nested.ts)
\* ------------------------------------------------------------------------
PartialMarker(n) == ("$partial" :> TRUE) @@ ("skipped" :> n)

isPartialMarker(v) == "$partial" \in DOMAIN v /\ v["$partial"] = TRUE

isRefMarker(v) == "$ref" \in DOMAIN v /\ v["$ref"] = TRUE

\* { $ref: true, ...primary key }
RefMarker(pkRow) == ("$ref" :> TRUE) @@ pkRow

\* ------------------------------------------------------------------------
\* Nester (nested.ts: toNested)
\* ------------------------------------------------------------------------
NoLimit == [limit |-> -1, nestedLimit |-> -1]

\* rows.slice(0, limit), limit undefined (-1) meaning all rows
Slice(rows, limit) ==
    IF limit < 0 \/ limit >= Len(rows) THEN rows ELSE SubSeq(rows, 1, limit)

\* primaryKey.map(col => JSON.stringify(row[col])).join("|")
PkKey(row, primaryKey) == [i \in 1..Len(primaryKey) |-> Get(row, primaryKey[i])]

\* [...pkIndex.values()].flat(): the rows grouped by key, the groups in the order
\* of each key's first row
RECURSIVE GroupByKey(_, _)
GroupByKey(rows, primaryKey) ==
    IF Len(rows) = 0 THEN <<>>
    ELSE LET k == PkKey(Head(rows), primaryKey)
         IN  SelectSeq(rows, LAMBDA r : PkKey(r, primaryKey) = k)
             \o GroupByKey(SelectSeq(rows, LAMBDA r : PkKey(r, primaryKey) # k),
                           primaryKey)

RowsOf(flat, t) == IF t \in DOMAIN flat THEN flat[t] ELSE <<>>

findChildRows(S, flat, parentRow, edge) ==
    IF edge.childTable \notin DOMAIN flat \/ ~HasTable(S, edge.childTable) THEN <<>>
    ELSE IF ~HasTable(S, edge.parentTable) THEN <<>>
    ELSE LET allRows == GroupByKey(flat[edge.childTable],
                                   TableOf(S, edge.childTable).primaryKey)
         IN  SelectSeq(allRows, LAMBDA childRow :
                 \A i \in 1..Len(edge.foreignKeyColumns) :
                     Get(childRow, edge.foreignKeyColumns[i])
                         = Get(parentRow, edge.relationship.toColumns[i]))

removeFkColumns(row, fkColumns) ==
    [k \in DOMAIN row \ Range(fkColumns) |-> row[k]]

\* result[key] = value on an object: the key is added or overwritten
SetKey(obj, key, value) == (key :> value) @@ obj

RECURSIVE nestRow(_, _, _, _, _, _)
RECURSIVE NestChildren(_, _, _, _, _, _, _)
NestChildren(S, T, flat, row, edges, options, acc) ==
    IF Len(edges) = 0 THEN acc
    ELSE LET edge == Head(edges)
             childRows == findChildRows(S, flat, row, edge)
             limitedRows == Slice(childRows, options.nestedLimit)
             nested == [i \in 1..Len(limitedRows) |->
                          nestRow(S, T, flat,
                                  removeFkColumns(limitedRows[i], edge.foreignKeyColumns),
                                  edge.childTable, options)]
             marked == IF options.nestedLimit >= 0 /\ Len(childRows) > options.nestedLimit
                       THEN Append(nested,
                                   PartialMarker(Len(childRows) - options.nestedLimit))
                       ELSE nested
         IN  NestChildren(S, T, flat, row, Tail(edges), options,
                          SetKey(acc, toCamelCase(edge.childTable), marked))

nestRow(S, T, flat, row, tableName, options) ==
    NestChildren(S, T, flat, row, getChildren(T, tableName), options, row)

RECURSIVE NestRoots(_, _, _, _, _, _)
NestRoots(S, T, flat, roots, options, acc) ==
    IF Len(roots) = 0 THEN acc
    ELSE LET rootTable == Head(roots)
             rows == RowsOf(flat, rootTable)
             limitedRows == Slice(rows, options.limit)
             nested == [i \in 1..Len(limitedRows) |->
                          nestRow(S, T, flat, limitedRows[i], rootTable, options)]
             marked == IF options.limit >= 0 /\ Len(rows) > options.limit
                       THEN Append(nested, PartialMarker(Len(rows) - options.limit))
                       ELSE nested
         IN  NestRoots(S, T, flat, Tail(roots), options,
                       SetKey(acc, toCamelCase(rootTable), marked))

\* toNested(...).data
toNested(flat, S, T, options) == NestRoots(S, T, flat, T.roots, options, <<>>)

\* ------------------------------------------------------------------------
\* Flattener (nested.ts: fromNested)
\* ------------------------------------------------------------------------
NoParent == [kind |-> "none"]

\* tables.get(t)?.push(row)
Push(tables, t, row) ==
    IF t \in DOMAIN tables THEN [tables EXCEPT ![t] = Append(@, row)] ELSE tables

\* flatRow[fkCol] = parentRow[pkCol] for the columns of the edge, in order
\* SetFkColumns that leaves the row as it was written
SkipFkColumns(flatRow, edge, parentRow, i) == flatRow

RECURSIVE SetFkColumns(_, _, _, _)
SetFkColumns(flatRow, edge, parentRow, i) ==
    IF i > Len(edge.foreignKeyColumns) THEN flatRow
    ELSE SetFkColumns(SetKey(flatRow, edge.foreignKeyColumns[i],
                             Get(parentRow, edge.relationship.toColumns[i])),
                      edge, parentRow, i + 1)

handleRefMarker(S, ref, edge, parentRow, tables) ==
    IF ~HasTable(S, edge.childTable) THEN tables
    ELSE LET pk == TableOf(S, edge.childTable).primaryKey
             pkRow == [c \in {x \in Range(pk) : x \in DOMAIN ref /\ x # "$ref"} |-> ref[c]]
         IN  Push(tables, edge.childTable, SetFkColumns(pkRow, edge, parentRow, 1))

\* A value stored under a child-table key of a nested row is a list in every
\* file of the model, so Array.isArray(childArray) is the presence of the key.
RECURSIVE flattenRow(_, _, _, _, _, _)
RECURSIVE FlattenChildRows(_, _, _, _, _, _)
RECURSIVE FlattenEdges(_, _, _, _, _, _)
FlattenChildRows(S, T, childArray, edge, flatRow, tables) ==
    IF Len(childArray) = 0 THEN tables
    ELSE LET childRow == Head(childArray)
             next == IF isPartialMarker(childRow) THEN tables
                     ELSE IF isRefMarker(childRow)
                          THEN handleRefMarker(S, childRow, edge, flatRow, tables)
                          ELSE flattenRow(S, T, childRow, edge.childTable,
                                          [kind |-> "ctx", edge |-> edge,
                                           parentRow |-> flatRow],
                                          tables)
         IN  FlattenChildRows(S, T, Tail(childArray), edge, flatRow, next)

FlattenEdges(S, T, nested, edges, flatRow, tables) ==
    IF Len(edges) = 0 THEN tables
    ELSE LET edge == Head(edges)
             childKey == toCamelCase(edge.childTable)
             next == IF childKey \in DOMAIN nested
                     THEN FlattenChildRows(S, T, nested[childKey], edge, flatRow, tables)
                     ELSE tables
         IN  FlattenEdges(S, T, nested, Tail(edges), flatRow, next)

flattenRow(S, T, nested, tableName, parentContext, tables) ==
    IF ~HasTable(S, tableName) THEN tables
    ELSE LET columnNames == ColumnNames(TableOf(S, tableName))
             scalars == [k \in DOMAIN nested \cap columnNames |-> nested[k]]
             flatRow == IF parentContext.kind = "ctx"
                           /\ HasTable(S, parentContext.edge.parentTable)
                        THEN SetFkColumns(scalars, parentContext.edge,
                                          parentContext.parentRow, 1)
                        ELSE scalars
         IN  FlattenEdges(S, T, nested, getChildren(T, tableName), flatRow,
                          Push(tables, tableName, flatRow))

RECURSIVE FlattenRootRows(_, _, _, _, _)
FlattenRootRows(S, T, rows, rootTable, tables) ==
    IF Len(rows) = 0 THEN tables
    ELSE LET row == Head(rows)
             next == IF isPartialMarker(row) \/ isRefMarker(row) THEN tables
                     ELSE flattenRow(S, T, row, rootTable, NoParent, tables)
         IN  FlattenRootRows(S, T, Tail(rows), rootTable, next)

RECURSIVE FlattenRoots(_, _, _, _, _)
FlattenRoots(S, T, nested, roots, tables) ==
    IF Len(roots) = 0 THEN tables
    ELSE LET camelName == toCamelCase(Head(roots))
             rows == IF camelName \in DOMAIN nested THEN nested[camelName] ELSE <<>>
         IN  FlattenRoots(S, T, nested, Tail(roots),
                          FlattenRootRows(S, T, rows, Head(roots), tables))

fromNested(nested, S, T) ==
    FlattenRoots(S, T, nested, T.roots, [t \in Range(TableNames(S)) |-> <<>>])

\* ------------------------------------------------------------------------
\* Diff engine (diff.ts)
\* ------------------------------------------------------------------------
\* the JSON objects of the model, each named by its text, with its entries in
\* the order its keys were written (the order Object.keys and JSON.stringify
\* follow)
ObjectEntries ==
    ("{x:1,y:2}" :> << <<"x", "1">>, <<"y", "2">> >>)
    @@ ("{y:2,x:1}" :> << <<"y", "2">>, <<"x", "1">> >>)
    @@ ("{x:1,y:3}" :> << <<"x", "1">>, <<"y", "3">> >>)
    @@ ("{y:3,x:1}" :> << <<"y", "3">>, <<"x", "1">> >>)

\* typeof v === 'object' for a value that is not null
IsObject(v) == v \in DOMAIN ObjectEntries

\* JSON.stringify of an object: its entries in insertion order
JsonStringify(v) == ObjectEntries[v]

\* valuesEqual on the values of the model (null, undefined, strings that are no
\* ISO date-times, JSON objects)
valuesEqual(a, b) ==
    IF a = NULL /\ b = NULL THEN TRUE
    ELSE IF a = UNDEF /\ b = UNDEF THEN TRUE
    ELSE IF a = NULL \/ b = NULL THEN FALSE
    ELSE IF a = UNDEF \/ b = UNDEF THEN FALSE
    ELSE IF IsObject(a) /\ IsObject(b) THEN JsonStringify(a) = JsonStringify(b)
    ELSE a = b

findChangedColumns(current, desired, primaryKey) ==
    {col \in (DOMAIN current \cup DOMAIN desired) \ Range(primaryKey) :
        ~valuesEqual(Get(current, col), Get(desired, col))}

extractPrimaryKey(row, primaryKey) == [c \in Range(primaryKey) |-> Get(row, c)]

\* indexByPrimaryKey: a Map from key to row, as the sequence of its entries in
\* insertion order; a later row with the same key replaces the value in place
RECURSIVE indexByPrimaryKey(_, _, _)
indexByPrimaryKey(rows, primaryKey, acc) ==
    IF Len(rows) = 0 THEN acc
    ELSE LET row == Head(rows)
             key == PkKey(row, primaryKey)
             hit == {i \in 1..Len(acc) : acc[i].key = key}
             next == IF hit = {} THEN Append(acc, [key |-> key, row |-> row])
                     ELSE [i \in 1..Len(acc) |->
                              IF i \in hit THEN [key |-> key, row |-> row] ELSE acc[i]]
         IN  indexByPrimaryKey(Tail(rows), primaryKey, next)

HasKey(index, key) == \E i \in 1..Len(index) : index[i].key = key

Lookup(index, key) == index[CHOOSE i \in 1..Len(index) : index[i].key = key].row

diffTable(tableName, primaryKey, currentRows, desiredRows) ==
    LET currentByPk == indexByPrimaryKey(currentRows, primaryKey, <<>>)
        desiredByPk == indexByPrimaryKey(desiredRows, primaryKey, <<>>)
        ForCurrent(e) ==
            IF ~HasKey(desiredByPk, e.key)
            THEN << [type |-> "delete", table |-> tableName,
                     primaryKey |-> extractPrimaryKey(e.row, primaryKey),
                     oldRow |-> e.row] >>
            ELSE LET desiredRow == Lookup(desiredByPk, e.key)
                     changed == findChangedColumns(e.row, desiredRow, primaryKey)
                 IN  IF changed = {} THEN <<>>
                     ELSE << [type |-> "update", table |-> tableName,
                              primaryKey |-> extractPrimaryKey(e.row, primaryKey),
                              oldValues |-> [c \in changed |-> Get(e.row, c)],
                              newValues |-> [c \in changed |-> Get(desiredRow, c)]] >>
        ForDesired(e) ==
            IF HasKey(currentByPk, e.key) THEN <<>>
            ELSE << [type |-> "insert", table |-> tableName, row |-> e.row] >>
    IN  Concat([i \in 1..Len(currentByPk) |-> ForCurrent(currentByPk[i])])
        \o Concat([i \in 1..Len(desiredByPk) |-> ForDesired(desiredByPk[i])])

\* diff: every table named in either dataset that the schema knows
diff(S, current, desired) ==
    LET names == SelectSeq(TableNames(S),
                           LAMBDA t : t \in DOMAIN current \cup DOMAIN desired)
    IN  Concat([i \in 1..Len(names) |->
                  diffTable(names[i], TableOf(S, names[i]).primaryKey,
                            RowsOf(current, names[i]), RowsOf(desired, names[i]))])

\* ------------------------------------------------------------------------
\* Orderer and SQL emitter (sqlGenerator.ts)
\* ------------------------------------------------------------------------
\* dependsOn.get(table): the FK targets of a table, in insertion order
RECURSIVE Dedup(_, _)
Dedup(s, seen) ==
    IF Len(s) = 0 THEN <<>>
    ELSE IF Head(s) \in seen THEN Dedup(Tail(s), seen)
    ELSE <<Head(s)>> \o Dedup(Tail(s), seen \cup {Head(s)})

DependsOn(S, table) ==
    LET rels == SelectSeq(S.relationships, LAMBDA r : r.fromTable = table)
    IN  Dedup([i \in 1..Len(rels) |-> rels[i].toTable], {})

\* topologicalSort: depth-first, a table on the visiting stack is skipped
RECURSIVE visit(_, _, _)
RECURSIVE VisitAll(_, _, _)
VisitAll(S, tables, st) ==
    IF Len(tables) = 0 THEN st ELSE VisitAll(S, Tail(tables), visit(S, Head(tables), st))

visit(S, table, st) ==
    IF table \in st.visited \/ table \in st.visiting THEN st
    ELSE LET deps == IF HasTable(S, table) THEN DependsOn(S, table) ELSE <<>>
             after == VisitAll(S, deps, [st EXCEPT !.visiting = @ \cup {table}])
         IN  [visited |-> after.visited \cup {table},
              visiting |-> after.visiting \ {table},
              result |-> Append(after.result, table)]

topologicalSort(S) ==
    VisitAll(S, TableNames(S), [visited |-> {}, visiting |-> {}, result |-> <<>>]).result

\* orderMap.get(table) ?? 0
OrderOf(sorted, table) ==
    IF table \in Range(sorted)
    THEN (CHOOSE i \in 1..Len(sorted) : sorted[i] = table) - 1
    ELSE 0

\* a stable sort of changes by ascending (dir = 1) or descending (dir = -1) order
RECURSIVE SortByOrder(_, _, _, _)
SortByOrder(cs, sorted, dir, k) ==
    IF k < 0 \/ k > Len(sorted) THEN <<>>
    ELSE SelectSeq(cs, LAMBDA c : OrderOf(sorted, c.table) = k)
         \o SortByOrder(cs, sorted, dir, k + dir)

\* orderChangesByDependency without the two sorts: the groups in input order
orderChangesUnsorted(S, cs) ==
    SelectSeq(cs, LAMBDA c : c.type = "delete")
    \o SelectSeq(cs, LAMBDA c : c.type = "update")
    \o SelectSeq(cs, LAMBDA c : c.type = "insert")

orderChangesByDependency(S, cs) ==
    LET sorted == topologicalSort(S)
        deletes == SelectSeq(cs, LAMBDA c : c.type = "delete")
        updates == SelectSeq(cs, LAMBDA c : c.type = "update")
        inserts == SelectSeq(cs, LAMBDA c : c.type = "insert")
    IN  SortByOrder(deletes, sorted, -1, Len(sorted))
        \o updates
        \o SortByOrder(inserts, sorted, 1, 0)

generateInsert(table, row) == [sql |-> "INSERT", table |-> table, values |-> row]

generateUpdate(table, primaryKey, newValues) ==
    [sql |-> "UPDATE", table |-> table, set |-> newValues, where |-> primaryKey]

generateDelete(table, primaryKey) ==
    [sql |-> "DELETE", table |-> table, where |-> primaryKey]

generateSql(cs) ==
    [i \in 1..Len(cs) |->
        IF cs[i].type = "insert" THEN generateInsert(cs[i].table, cs[i].row)
        ELSE IF cs[i].type = "update"
             THEN generateUpdate(cs[i].table, cs[i].primaryKey, cs[i].newValues)
             ELSE generateDelete(cs[i].table, cs[i].primaryKey)]

\* ------------------------------------------------------------------------
\* The database behind the driver (DbClient.query): PostgreSQL executing the
\* generated statements, with the schema's primary keys and foreign keys
\* checked at each statement.  db maps each table to the set of its rows.
\* ------------------------------------------------------------------------
\* the driver sends undefined parameters as NULL
SqlParam(v) == IF v = UNDEF THEN NULL ELSE v

\* WHERE "c1" = $1 AND "c2" = $2: NULL equals nothing
Matches(row, where) ==
    \A c \in DOMAIN where : SqlParam(where[c]) # NULL /\ Get(row, c) = SqlParam(where[c])

\* the row references nothing (some FK column NULL) or an existing parent row
FkHolds(d, rel, row) ==
    \/ \E i \in 1..Len(rel.fromColumns) : row[rel.fromColumns[i]] = NULL
    \/ \E p \in d[rel.toTable] :
          \A i \in 1..Len(rel.fromColumns) : row[rel.fromColumns[i]] = p[rel.toColumns[i]]

RowFksHold(S, d, table, row) ==
    \A i \in 1..Len(S.relationships) :
        S.relationships[i].fromTable = table => FkHolds(d, S.relationships[i], row)

\* every row of the database satisfies every foreign key of the schema
FkConsistent(S, d) ==
    \A t \in DOMAIN d : \A r \in d[t] : RowFksHold(S, d, t, r)

PkUnique(S, d) ==
    \A t \in DOMAIN d : \A r1, r2 \in d[t] :
        PkKey(r1, TableOf(S, t).primaryKey) = PkKey(r2, TableOf(S, t).primaryKey)
            => r1 = r2

Failed(kind) == [ok |-> FALSE, err |-> kind]

Done(d) == [ok |-> TRUE, db |-> d]

References(rel, child, parents) ==
    \E p \in parents :
        \A i \in 1..Len(rel.fromColumns) :
            child[rel.fromColumns[i]] # NULL
            /\ child[rel.fromColumns[i]] = p[rel.toColumns[i]]

\* removes the victims from a table and applies the ON DELETE action of every
\* foreign key that points to the table
RECURSIVE DeleteRows(_, _, _, _)
RECURSIVE OnDelete(_, _, _, _, _)
OnDelete(S, res, table, victims, i) ==
    IF ~res.ok \/ i > Len(S.relationships) THEN res
    ELSE LET rel == S.relationships[i]
             kids == {r \in res.db[rel.fromTable] : References(rel, r, victims)}
             next ==
                IF rel.toTable # table \/ kids = {} THEN res
                ELSE IF rel.onDelete = "CASCADE"
                     THEN DeleteRows(S, res.db, rel.fromTable, kids)
                ELSE IF rel.onDelete = "SET NULL"
                     THEN Done([res.db EXCEPT ![rel.fromTable] =
                            (@ \ kids) \cup
                            {[c \in DOMAIN r |-> IF c \in Range(rel.fromColumns)
                                                 THEN NULL ELSE r[c]] : r \in kids}])
                ELSE Failed("fk")
         IN  OnDelete(S, next, table, victims, i + 1)

DeleteRows(S, d, table, victims) ==
    OnDelete(S, Done([d EXCEPT ![table] = @ \ victims]), table, victims, 1)

ExecInsert(S, d, stmt) ==
    LET tbl == TableOf(S, stmt.table)
        cols == DOMAIN stmt.values
        row == [c \in ColumnNames(tbl) |->
                   IF c \in cols THEN SqlParam(stmt.values[c]) ELSE NULL]
        after == [d EXCEPT ![stmt.table] = @ \cup {row}]
    IN  IF cols = {} \/ ~(cols \subseteq ColumnNames(tbl)) THEN Failed("syntax")
        ELSE IF \E c \in Range(tbl.primaryKey) : row[c] = NULL THEN Failed("pk")
        ELSE IF \E r \in d[stmt.table] :
                    PkKey(r, tbl.primaryKey) = PkKey(row, tbl.primaryKey)
             THEN Failed("pk")
        ELSE IF ~RowFksHold(S, after, stmt.table, row) THEN Failed("fk")
        ELSE Done(after)

ExecUpdate(S, d, stmt) ==
    LET tbl == TableOf(S, stmt.table)
        hit == {r \in d[stmt.table] : Matches(r, stmt.where)}
        Upd(r) == [c \in DOMAIN r |->
                      IF c \in DOMAIN stmt.set THEN SqlParam(stmt.set[c]) ELSE r[c]]
        after == [d EXCEPT ![stmt.table] = (@ \ hit) \cup {Upd(r) : r \in hit}]
    IN  IF DOMAIN stmt.where = {} \/ DOMAIN stmt.set = {}
           \/ ~(DOMAIN stmt.set \cup DOMAIN stmt.where \subseteq ColumnNames(tbl))
        THEN Failed("syntax")
        ELSE IF \E r \in hit : ~RowFksHold(S, after, stmt.table, Upd(r)) THEN Failed("fk")
        ELSE Done(after)

ExecDelete(S, d, stmt) ==
    LET tbl == TableOf(S, stmt.table)
        hit == {r \in d[stmt.table] : Matches(r, stmt.where)}
    IN  IF DOMAIN stmt.where = {} \/ ~(DOMAIN stmt.where \subseteq ColumnNames(tbl))
        THEN Failed("syntax")
        ELSE DeleteRows(S, d, stmt.table, hit)

\* client.query(stmt.sql, stmt.params)
ExecStatement(S, d, stmt) ==
    IF stmt.sql = "INSERT" THEN ExecInsert(S, d, stmt)
    ELSE IF stmt.sql = "UPDATE" THEN ExecUpdate(S, d, stmt)
    ELSE ExecDelete(S, d, stmt)

\* text values in ascending order, as ORDER BY sorts the primary keys
ValueOrder == <<"A", "B", "a", "b", "i1", "i2", "o1", "o2", "p1", "p2", "u1", "u2">>

ValueRank(v) == CHOOSE i \in 1..Len(ValueOrder) : ValueOrder[i] = v

\* lexicographic comparison of two primary keys
RECURSIVE KeyLess(_, _)
KeyLess(k1, k2) ==
    IF Len(k1) = 0 THEN FALSE
    ELSE IF ValueRank(Head(k1)) # ValueRank(Head(k2))
         THEN ValueRank(Head(k1)) < ValueRank(Head(k2))
         ELSE KeyLess(Tail(k1), Tail(k2))

\* SELECT * FROM t ORDER BY pk
RECURSIVE SelectOrdered(_, _)
SelectOrdered(rows, primaryKey) ==
    IF rows = {} THEN <<>>
    ELSE LET m == CHOOSE r \in rows : \A q \in rows :
                    ~KeyLess(PkKey(q, primaryKey), PkKey(r, primaryKey))
         IN  <<m>> \o SelectOrdered(rows \ {m}, primaryKey)

\* SyncEngine.fetchCurrentData().dataset, without a limit
fetchCurrentData(S, d) ==
    [t \in Range(TableNames(S)) |-> SelectOrdered(d[t], TableOf(S, t).primaryKey)]

\* the rows a flat dataset gives for a table, as a set
RowSet(flat, t) == Range(RowsOf(flat, t))

\* ------------------------------------------------------------------------
\* Bounded inputs
\* ------------------------------------------------------------------------
MaxRows == 2

ColumnDomain ==
    [Organization |-> [id |-> {"o1", "o2"}, name |-> {"a", "b"}, project |-> {"a", "b"}],
     Project |-> [id |-> {"p1", "p2"}, organizationId |-> {"o1", "o2", NULL}],
     Product |-> [id |-> {"i1", "i2"}, name |-> {"a", "b"}, label |-> {"A", "B"}],
     AuditLog |-> [message |-> {"a", "b"}],
     users |-> [id |-> {"u1", "u2"}, name |-> {"a", "b"}],
     Document |-> [id |-> {"d1", "d2"}, title |-> {"a", "b"},
                   settings |-> DOMAIN ObjectEntries \cup {NULL}],
     posts |-> [id |-> {"p1", "p2"}, userId |-> {"u1", "u2", NULL}]]

AllValues ==
    {"o1", "o2", "p1", "p2", "a", "b", NULL, "i1", "i2", "A", "B", "u1", "u2",
     "d1", "d2"} \cup DOMAIN ObjectEntries

\* the full rows a table can hold
AllRows(S, t) ==
    {r \in [ColumnNames(TableOf(S, t)) -> AllValues] :
        \A c \in DOMAIN r : r[c] \in ColumnDomain[t][c]}

\* the row sets of at most MaxRows rows with distinct primary keys
RowSets(S, t) ==
    {rs \in SUBSET AllRows(S, t) :
        /\ Cardinality(rs) <= MaxRows
        /\ \A r1, r2 \in rs :
              PkKey(r1, TableOf(S, t).primaryKey) = PkKey(r2, TableOf(S, t).primaryKey)
                  => r1 = r2}

\* the row lists of at most MaxRows rows with distinct primary keys, in any order
RowLists(S, t) ==
    UNION {{q \in [1..n -> AllRows(S, t)] :
               \A i, j \in 1..n :
                   PkKey(q[i], TableOf(S, t).primaryKey)
                       = PkKey(q[j], TableOf(S, t).primaryKey) => i = j}
           : n \in 0..MaxRows}

\* the functions over the given tables that map each table t to a member of F[t]
RECURSIVE TablesTo(_, _)
TablesTo(tables, F) ==
    IF Len(tables) = 0 THEN {<<>>}
    ELSE LET rest == TablesTo(Tail(tables), F)
             here == F[Head(tables)]
         IN  {(Head(tables) :> x) @@ r : x \in here, r \in rest}

\* the contents PostgreSQL can hold: keys unique, no dangling foreign key
Databases(S) ==
    {d \in TablesTo(TableNames(S), [t \in Range(TableNames(S)) |-> RowSets(S, t)]) : FkConsistent(S, d)}

\* the flat datasets with unique primary keys
FlatDatasets(S) == TablesTo(TableNames(S), [t \in Range(TableNames(S)) |-> RowLists(S, t)])

AsDatabase(flat) == [t \in DOMAIN flat |-> Range(flat[t])]

OrgDatabases == Databases(OrgSchema)

OrgDatasets == FlatDatasets(OrgSchema)

OrgConsistentDatasets == {f \in OrgDatasets : FkConsistent(OrgSchema, AsDatabase(f))}

\* ------------------------------------------------------------------------
\* Specification SpecNested: toNested followed by fromNested on a flat dataset
\* ------------------------------------------------------------------------
EditorIdle ==
    /\ file = NoFile /\ baseFile = NoFile
    /\ dataset = <<>> /\ changes = <<>> /\ previewed = <<>>
    /\ stmtIdx = 0 /\ snapshot = <<>> /\ sent = <<>>
    /\ result = "none" /\ errAt = "none"
    /\ dbAtStart = <<>> /\ baseAtStart = NoFile
    /\ faults = 0 /\ edits = 0 /\ writes = 0 /\ ops = 0
    /\ dumped = NoDump /\ fileAtStart = NoFile

EditorUnchanged ==
    UNCHANGED <<file, baseFile, dataset, previewed, snapshot, sent, result,
                dbAtStart, baseAtStart, faults, edits, writes, ops, dumped,
                fileAtStart>>

InitNested ==
    /\ schema = OrgSchema
    /\ in1 \in OrgDatasets
    /\ in2 = <<>> /\ out = <<>>
    /\ db = <<>>
    /\ op = "roundtrip" /\ pc = "start"
    /\ EditorIdle

NestStep ==
    /\ op = "roundtrip" /\ pc = "start"
    /\ out' = toNested(in1, schema, buildOwnershipTree(schema), NoLimit)
    /\ pc' = "nested"
    /\ UNCHANGED <<schema, db, op, in1, in2, changes, stmtIdx, errAt>>
    /\ EditorUnchanged

FlattenStep ==
    /\ op = "roundtrip" /\ pc = "nested"
    /\ in2' = fromNested(out, schema, buildOwnershipTree(schema))
    /\ pc' = "flat"
    /\ UNCHANGED <<schema, db, op, in1, out, changes, stmtIdx, errAt>>
    /\ EditorUnchanged

NextNested == NestStep \/ FlattenStep

SpecNested == InitNested /\ [][NextNested]_vars

\* ------------------------------------------------------------------------
\* Specification SpecDiff: the statements of emit(order(diff(A, B))) executed
\* one after another against a database that holds A
\* ------------------------------------------------------------------------
InitDiff ==
    /\ schema = OrgSchema
    /\ db \in OrgDatabases
    /\ in1 = fetchCurrentData(schema, db)
    /\ in2 \in OrgConsistentDatasets
    /\ out = <<>>
    /\ op = "diff" /\ pc = "start"
    /\ EditorIdle

DiffStep ==
    /\ op = "diff" /\ pc = "start"
    /\ changes' = orderChangesByDependency(schema, diff(schema, in1, in2))
    /\ stmtIdx' = 1
    /\ pc' = "exec"
    /\ UNCHANGED <<schema, db, op, in1, in2, out, errAt>>
    /\ EditorUnchanged

ExecStep ==
    /\ op = "diff" /\ pc = "exec" /\ stmtIdx <= Len(changes)
    /\ LET res == ExecStatement(schema, db, generateSql(changes)[stmtIdx])
       IN  IF res.ok
           THEN db' = res.db /\ stmtIdx' = stmtIdx + 1 /\ UNCHANGED <<pc, errAt>>
           ELSE pc' = "failed" /\ errAt' = res.err /\ UNCHANGED <<db, stmtIdx>>
    /\ UNCHANGED <<schema, op, in1, in2, out, changes>>
    /\ EditorUnchanged

FinishStep ==
    /\ op = "diff" /\ pc = "exec" /\ stmtIdx > Len(changes)
    /\ pc' = "done"
    /\ UNCHANGED <<schema, db, op, in1, in2, out, changes, stmtIdx, errAt>>
    /\ EditorUnchanged

NextDiff == DiffStep \/ ExecStep \/ FinishStep

SpecDiff == InitDiff /\ [][NextDiff]_vars

\* ------------------------------------------------------------------------
\* File formats (fileFormat.ts) and file parsing (databaseEditor.ts)
\* A JSON file is [base |-> whether it has a $base reference,
\*                 data |-> its other keys, each holding a list].
\* ------------------------------------------------------------------------
\* JSON.stringify leaves out the keys whose value is undefined
DropUndefined(row) == [k \in {x \in DOMAIN row : row[x] # UNDEF} |-> row[k]]

NoTruncation == <<>>

\* serializeFlatDataset(dataset, metadata, {truncated}), as the parsed JSON
serializeFlatDataset(flat, truncated) ==
    [t \in DOMAIN flat |->
        LET rows == [i \in 1..Len(flat[t]) |-> DropUndefined(flat[t][i])]
        IN  IF t \in DOMAIN truncated /\ truncated[t] > 0
            THEN Append(rows, PartialMarker(truncated[t]))
            ELSE rows]

\* parseFlatDataset(json).dataset: every list, partial markers filtered out
parseFlatDataset(data) ==
    [t \in DOMAIN data |-> SelectSeq(data[t], LAMBDA row : ~isPartialMarker(row))]

\* DatabaseEditor._isNestedFormat
isNestedFormat(data, T) ==
    \E i \in 1..Len(T.roots) : toCamelCase(T.roots[i]) \in DOMAIN data

\* DatabaseEditor._parseFile: dataset and isPartial (metadata is f.base)
parseFile(S, f) ==
    LET tree == buildOwnershipTree(S)
    IN  IF isNestedFormat(f.data, tree)
        THEN [dataset |-> fromNested(f.data, S, tree),
              isPartial |-> \E k \in DOMAIN f.data : \E i \in 1..Len(f.data[k]) :
                               "$partial" \in DOMAIN f.data[k][i]]
        ELSE [dataset |-> parseFlatDataset(f.data),
              \* parseFlatDataset returns no isPartial: the caller reads undefined
              isPartial |-> FALSE]

NoBase == [kind |-> "null"]

\* DatabaseEditor._loadBaseFile
loadBaseFile(f, base) ==
    IF ~f.base THEN NoBase
    ELSE IF base = NoFile THEN NoBase
    ELSE [kind |-> "dataset", dataset |-> parseFlatDataset(base.data)]

\* ------------------------------------------------------------------------
\* SyncEngine (syncEngine.ts)
\* ------------------------------------------------------------------------
\* fetchCurrentData({limit}): the first rows of each table and the skipped counts
fetchLimited(S, d, limit) ==
    LET all == fetchCurrentData(S, d)
    IN  [dataset |-> [t \in DOMAIN all |-> Slice(all[t], limit)],
         truncated |-> [t \in {x \in DOMAIN all : limit >= 0 /\ Len(all[x]) > limit}
                           |-> Len(all[t]) - limit]]

\* SyncEngine.preview(desired) on the fetched rows
enginePreview(S, current, desired) ==
    orderChangesByDependency(S, diff(S, current, desired))

\* SyncEngine.diffAgainstBase(base, edited): the ordered diff of base against edited
diffAgainstBase(S, base, edited) ==
    orderChangesByDependency(S, diff(S, base, edited))

\* SyncEngine.diffAgainstDb(desired): the ordered diff of the fetched rows
diffAgainstDb(S, current, desired) ==
    orderChangesByDependency(S, diff(S, current, desired))

\* ------------------------------------------------------------------------
\* Specification Spec: one DatabaseEditor on one file, the user who edits the
\* file, the other clients of the database and a driver that can fail
\* ------------------------------------------------------------------------
\* the databases the editor starts on
OrgRow(id) == [id |-> id, name |-> "a"]

ProjectRow(id, org) == [id |-> id, organizationId |-> org]

InitDbs ==
    {[Organization |-> {OrgRow("o1")}, Project |-> {}],
     [Organization |-> {OrgRow("o1")}, Project |-> {ProjectRow("p1", "o1")}],
     [Organization |-> {OrgRow("o1")},
      Project |-> {ProjectRow("p1", "o1"), ProjectRow("p2", "o1")}],
     [Organization |-> {OrgRow("o1"), OrgRow("o2")},
      Project |-> {ProjectRow("p1", NULL)}]}

\* the option sets dump is called with (undefined limits are -1)
DumpOptions ==
    {[flat |-> FALSE, limit |-> -1, nestedLimit |-> -1, createBase |-> TRUE],
     [flat |-> TRUE,  limit |-> -1, nestedLimit |-> -1, createBase |-> TRUE],
     [flat |-> FALSE, limit |-> -1, nestedLimit |-> 1,  createBase |-> TRUE],
     [flat |-> TRUE,  limit |-> 1,  nestedLimit |-> -1, createBase |-> TRUE],
     [flat |-> FALSE, limit |-> 1,  nestedLimit |-> -1, createBase |-> TRUE],
     [flat |-> FALSE, limit |-> -1, nestedLimit |-> -1, createBase |-> FALSE]}

JsonFile(hasBase, data) == [kind |-> "file", base |-> hasBase, data |-> data]

\* one entry of the driver's log: the query and whether the driver resolved it
Query(q, stmt, ok) == [q |-> q, stmt |-> stmt, ok |-> ok]

NoStmt == [sql |-> "none"]

\* the SELECTs of fetchCurrentData, one per table
FetchLog(S, ok) ==
    IF ok THEN [i \in 1..Len(S.tables) |-> Query("SELECT", [sql |-> "SELECT", table |-> S.tables[i].name], TRUE)]
    ELSE <<Query("SELECT", [sql |-> "SELECT", table |-> S.tables[1].name], FALSE)>>

Init ==
    /\ schema = OrgSchema
    /\ db \in InitDbs
    /\ in1 = <<>> /\ in2 = <<>> /\ out = <<>>
    /\ op = "none" /\ pc = "idle"
    /\ EditorIdle

\* what an operation leaves of the previous one
ClearRecord ==
    /\ dataset' = <<>> /\ changes' = <<>> /\ previewed' = <<>>
    /\ stmtIdx' = 0 /\ snapshot' = <<>> /\ sent' = <<>>
    /\ result' = "none" /\ errAt' = "none"
    /\ baseAtStart' = baseFile

PureUnchanged == UNCHANGED <<schema, in1, in2, out>>

\* DatabaseEditor.dump(options)
Dump ==
    /\ pc = "idle" /\ file = NoFile
    /\ \E o \in DumpOptions :
        LET fetched == fetchLimited(schema, db, o.limit)
            tree == buildOwnershipTree(schema)
        IN  /\ dumped' = o
            /\ baseFile' = IF o.createBase
                           THEN JsonFile(FALSE, serializeFlatDataset(fetched.dataset, NoTruncation))
                           ELSE baseFile
            /\ file' = JsonFile(o.createBase,
                          IF o.flat
                          THEN serializeFlatDataset(fetched.dataset, fetched.truncated)
                          ELSE toNested(fetched.dataset, schema, tree,
                                        [limit |-> o.limit, nestedLimit |-> o.nestedLimit]))
    /\ op' = "dump" /\ result' = "ok" /\ sent' = FetchLog(schema, TRUE)
    /\ dataset' = <<>> /\ changes' = <<>> /\ previewed' = <<>>
    /\ stmtIdx' = 0 /\ snapshot' = <<>> /\ errAt' = "none"
    /\ dbAtStart' = db /\ baseAtStart' = baseFile /\ fileAtStart' = file
    /\ UNCHANGED <<db, pc, faults, edits, writes, ops>>
    /\ PureUnchanged

\* ------------------------------------------------------------------------
\* The user's edits of the JSON file.  A list of the file is addressed by its
\* top-level key k or, inside the i-th element of that list, by a child key ck.
\* ------------------------------------------------------------------------
TopList(k) == [k |-> k, i |-> 0, ck |-> ""]

ChildKeys(S, node) ==
    {c \in DOMAIN node : \E t \in Range(TableNames(S)) : toCamelCase(t) = c /\ t # c}

Lists(S, data) ==
    {TopList(k) : k \in DOMAIN data}
    \cup UNION {UNION {{[k |-> k, i |-> i, ck |-> c] : c \in ChildKeys(S, data[k][i])}
                       : i \in 1..Len(data[k])}
                : k \in DOMAIN data}

ListAt(data, p) == IF p.i = 0 THEN data[p.k] ELSE data[p.k][p.i][p.ck]

WithList(data, p, list) ==
    IF p.i = 0 THEN [data EXCEPT ![p.k] = list]
    ELSE [data EXCEPT ![p.k][p.i][p.ck] = list]

\* the table whose rows the list holds
TableAt(S, p) ==
    LET key == IF p.i = 0 THEN p.k ELSE p.ck
    IN  CHOOSE t \in Range(TableNames(S)) : t = key \/ toCamelCase(t) = key

\* the columns a row of the list is written with: a nested child leaves out
\* the foreign key to its parent
WrittenColumns(S, p) ==
    LET t == TableAt(S, p)
        T == buildOwnershipTree(S)
    IN  IF p.i = 0 THEN ColumnNames(TableOf(S, t))
        ELSE ColumnNames(TableOf(S, t)) \ Range(T.dominantParent[t].fromColumns)

HasRowWithKey(S, list, t, row) ==
    \E j \in 1..Len(list) :
        /\ ~isPartialMarker(list[j])
        /\ \A c \in Range(TableOf(S, t).primaryKey) : Get(list[j], c) = Get(row, c)

RemoveAt(list, i) == SubSeq(list, 1, i - 1) \o SubSeq(list, i + 1, Len(list))

\* the lists one edit can turn the list into: an element removed, a value of a
\* row replaced, or a row added, the primary keys of the list staying distinct
EditedLists(S, p, list) ==
    LET t == TableAt(S, p)
        cols == WrittenColumns(S, p)
    IN  {RemoveAt(list, i) : i \in 1..Len(list)}
        \cup UNION {UNION {{[list EXCEPT ![i][c] = v] :
                               v \in {x \in ColumnDomain[t][c] :
                                        /\ x # list[i][c]
                                        /\ ~HasRowWithKey(S, RemoveAt(list, i), t,
                                                          [list[i] EXCEPT ![c] = x])}}
                           : c \in {x \in cols : ~isPartialMarker(list[i]) /\ x \in DOMAIN list[i]}}
                    : i \in 1..Len(list)}
        \cup {Append(list, [c \in cols |-> r[c]]) :
                 r \in {x \in AllRows(S, t) : ~HasRowWithKey(S, list, t, x)}}

EditedData(S, data) ==
    UNION {{WithList(data, p, l) : l \in EditedLists(S, p, ListAt(data, p))}
           : p \in Lists(S, data)}

UserEdit ==
    /\ pc = "idle" /\ file # NoFile /\ edits < MaxEdits
    /\ \E data \in EditedData(schema, file.data) :
          file' = [file EXCEPT !.data = data]
    /\ edits' = edits + 1
    /\ op' = "none"
    /\ ClearRecord /\ dbAtStart' = db /\ fileAtStart' = file'
    /\ UNCHANGED <<db, baseFile, pc, faults, writes, ops, dumped>>
    /\ PureUnchanged

\* ------------------------------------------------------------------------
\* The other clients of the database: one committed statement at a time, never
\* while this editor's transaction holds its changes uncommitted
\* ------------------------------------------------------------------------
ClientStatements(S, d) ==
    UNION {{generateInsert(t, r) : r \in AllRows(S, t)}
           \cup {generateDelete(t, extractPrimaryKey(r, TableOf(S, t).primaryKey)) : r \in d[t]}
           : t \in Range(TableNames(S))}

ConcurrentWrite ==
    /\ pc \in {"idle", "apply", "begin"} /\ file # NoFile /\ writes < MaxWrites
    /\ \E stmt \in ClientStatements(schema, db) :
          LET res == ExecStatement(schema, db, stmt)
          IN  /\ res.ok
              /\ db' = res.db
    /\ writes' = writes + 1
    /\ IF pc = "idle"
       THEN op' = "none" /\ ClearRecord /\ dbAtStart' = db' /\ fileAtStart' = file
       ELSE /\ dbAtStart' = db'
            /\ UNCHANGED <<op, dataset, changes, previewed, stmtIdx, snapshot, sent,
                           result, errAt, baseAtStart, fileAtStart>>
    /\ UNCHANGED <<file, baseFile, pc, faults, edits, ops, dumped>>
    /\ PureUnchanged

\* ------------------------------------------------------------------------
\* DatabaseEditor.preview, sync and reset, SyncEngine.apply and applyChanges
\* ------------------------------------------------------------------------
\* the driver rejects a call only while errors remain to be injected
FaultChoices == IF faults < MaxFaults THEN {FALSE, TRUE} ELSE {FALSE}

\* editorPreview without the base: the database is always fetched and diffed
editorPreviewTwoWay(S, f, base, d, fetchOk) ==
    LET parsed == parseFile(S, f)
    IN  IF parsed.isPartial
        THEN [result |-> "truncated", changes |-> <<>>, sent |-> <<>>]
        ELSE [result |-> "ok", sent |-> FetchLog(S, TRUE),
              changes |-> diffAgainstDb(S, fetchCurrentData(S, d), parsed.dataset)]

\* DatabaseEditor.preview(inputPath): the ChangeSet or the error it ends with
editorPreview(S, f, base, d, fetchOk) ==
    LET parsed == parseFile(S, f)
        loaded == loadBaseFile(f, base)
    IN  IF parsed.isPartial
        THEN [result |-> "truncated", changes |-> <<>>, sent |-> <<>>]
        ELSE IF loaded # NoBase
        THEN [result |-> "ok", sent |-> <<>>,
              changes |-> diffAgainstBase(S, loaded.dataset, parsed.dataset)]
        ELSE IF fetchOk
        THEN [result |-> "ok", sent |-> FetchLog(S, TRUE),
              changes |-> diffAgainstDb(S, fetchCurrentData(S, d), parsed.dataset)]
        ELSE [result |-> "error", changes |-> <<>>, sent |-> FetchLog(S, FALSE)]

\* preview queries the database only for a complete file without a base
PreviewFetches(S, f, base) ==
    ~parseFile(S, f).isPartial /\ loadBaseFile(f, base) = NoBase

\* updateBaseFile that leaves the base file as it is
updateBaseFileStale(f, base, flat) == base

\* DatabaseEditor._updateBaseFile(inputPath, metadata, dataset)
updateBaseFile(f, base, flat) ==
    IF ~f.base THEN base
    ELSE JsonFile(FALSE, serializeFlatDataset(flat, NoTruncation))

\* Preview that rewrites the base file from the parsed file, as sync does
PreviewUpdatingBase ==
    /\ pc = "idle" /\ file # NoFile /\ ops < MaxOps
    /\ ops' = ops + 1
    /\ \E fail \in FaultChoices :
        /\ fail => PreviewFetches(schema, file, baseFile)
        /\ LET res == editorPreview(schema, file, baseFile, db, ~fail)
           IN  /\ previewed' = res.changes
               /\ result' = res.result
               /\ sent' = res.sent
               /\ errAt' = IF res.result = "error" THEN "fetch" ELSE "none"
               /\ baseFile' = IF res.result = "ok"
                               THEN updateBaseFile(file, baseFile,
                                                   parseFile(schema, file).dataset)
                               ELSE baseFile
        /\ faults' = IF fail THEN faults + 1 ELSE faults
    /\ op' = "preview"
    /\ dataset' = <<>> /\ changes' = <<>> /\ stmtIdx' = 0 /\ snapshot' = <<>>
    /\ dbAtStart' = db /\ baseAtStart' = baseFile /\ fileAtStart' = file
    /\ UNCHANGED dumped
    /\ UNCHANGED <<db, file, pc, edits, writes>>
    /\ PureUnchanged

\* DatabaseEditor.preview(inputPath) as one step of the editor
Preview ==
    /\ pc = "idle" /\ file # NoFile /\ ops < MaxOps
    /\ ops' = ops + 1
    /\ \E fail \in FaultChoices :
        /\ fail => PreviewFetches(schema, file, baseFile)
        /\ LET res == editorPreview(schema, file, baseFile, db, ~fail)
           IN  /\ previewed' = res.changes
               /\ result' = res.result
               /\ sent' = res.sent
               /\ errAt' = IF res.result = "error" THEN "fetch" ELSE "none"
        /\ faults' = IF fail THEN faults + 1 ELSE faults
    /\ op' = "preview"
    /\ dataset' = <<>> /\ changes' = <<>> /\ stmtIdx' = 0 /\ snapshot' = <<>>
    /\ dbAtStart' = db /\ baseAtStart' = baseFile /\ fileAtStart' = file
    /\ UNCHANGED dumped
    /\ UNCHANGED <<db, file, baseFile, pc, edits, writes>>
    /\ PureUnchanged

\* DatabaseEditor.sync(inputPath) up to the call of applyChanges
SyncStart ==
    /\ pc = "idle" /\ file # NoFile /\ ops < MaxOps
    /\ ops' = ops + 1
    /\ LET parsed == parseFile(schema, file)
           loaded == loadBaseFile(file, baseFile)
       IN  IF parsed.isPartial
           THEN result' = "truncated" /\ pc' = "idle"
                /\ dataset' = <<>> /\ changes' = <<>>
           ELSE IF loaded = NoBase
           THEN result' = "missingBase" /\ pc' = "idle"
                /\ dataset' = <<>> /\ changes' = <<>>
           ELSE /\ result' = "none" /\ pc' = "begin"
                /\ dataset' = parsed.dataset
                /\ changes' = diffAgainstBase(schema, loaded.dataset, parsed.dataset)
    /\ op' = "sync"
    /\ previewed' = <<>> /\ stmtIdx' = 0 /\ snapshot' = <<>> /\ sent' = <<>>
    /\ errAt' = "none"
    /\ dbAtStart' = db /\ baseAtStart' = baseFile /\ fileAtStart' = file
    /\ UNCHANGED dumped
    /\ UNCHANGED <<db, file, baseFile, faults, edits, writes>>
    /\ PureUnchanged

\* DatabaseEditor.reset(inputPath) up to the BEGIN of SyncEngine.apply: the file
\* is parsed, the database fetched and diffed; an empty ChangeSet ends apply.
\* log holds the queries the operation has sent before.
ResetBody(log) ==
    \E fail \in FaultChoices :
        LET parsed == parseFile(schema, file)
            cs == enginePreview(schema, fetchCurrentData(schema, db), parsed.dataset)
        IN  /\ fail => ~parsed.isPartial
            /\ faults' = IF fail THEN faults + 1 ELSE faults
            /\ IF parsed.isPartial
               THEN /\ result' = "truncated" /\ pc' = "idle" /\ errAt' = "none"
                    /\ sent' = log /\ dataset' = <<>> /\ changes' = <<>>
                    /\ UNCHANGED baseFile
               ELSE IF fail
               THEN /\ result' = "error" /\ pc' = "idle" /\ errAt' = "fetch"
                    /\ sent' = log \o FetchLog(schema, FALSE)
                    /\ dataset' = parsed.dataset /\ changes' = <<>>
                    /\ UNCHANGED baseFile
               ELSE /\ sent' = log \o FetchLog(schema, TRUE)
                    /\ dataset' = parsed.dataset
                    /\ changes' = cs
                    /\ errAt' = "none"
                    /\ IF Len(cs) = 0
                       THEN /\ result' = "ok" /\ pc' = "idle"
                            /\ baseFile' = updateBaseFile(file, baseFile, parsed.dataset)
                       ELSE /\ result' = "none" /\ pc' = "begin"
                            /\ UNCHANGED baseFile

ResetStart ==
    /\ pc = "idle" /\ file # NoFile /\ ops < MaxOps
    /\ ops' = ops + 1
    /\ op' = "reset"
    /\ ResetBody(<<>>)
    /\ previewed' = <<>> /\ stmtIdx' = 0 /\ snapshot' = <<>>
    /\ dbAtStart' = db /\ baseAtStart' = baseFile /\ fileAtStart' = file
    /\ UNCHANGED dumped
    /\ UNCHANGED <<db, file, edits, writes>>
    /\ PureUnchanged

\* cli.ts, the sync command: editor.preview(file), nothing more when the
\* ChangeSet is empty
CliPreview ==
    /\ pc = "idle" /\ file # NoFile /\ ops < MaxOps
    /\ ops' = ops + 1
    /\ op' = "cliSync"
    /\ \E fail \in FaultChoices :
        /\ fail => PreviewFetches(schema, file, baseFile)
        /\ LET res == editorPreview(schema, file, baseFile, db, ~fail)
           IN  /\ previewed' = res.changes
               /\ sent' = res.sent
               /\ errAt' = IF res.result = "error" THEN "fetch" ELSE "none"
               /\ IF res.result = "ok" /\ Len(res.changes) > 0
                  THEN result' = "none" /\ pc' = "apply"
                  ELSE result' = res.result /\ pc' = "idle"
        /\ faults' = IF fail THEN faults + 1 ELSE faults
    /\ dataset' = <<>> /\ changes' = <<>> /\ stmtIdx' = 0 /\ snapshot' = <<>>
    /\ dbAtStart' = db /\ baseAtStart' = baseFile /\ fileAtStart' = file
    /\ UNCHANGED dumped
    /\ UNCHANGED <<db, file, baseFile, edits, writes>>
    /\ PureUnchanged

\* cli.ts, the sync command after the preview: editor.reset(file)
CliApply ==
    /\ pc = "apply" /\ op = "cliSync"
    /\ ResetBody(sent)
    /\ UNCHANGED <<db, file, op, previewed, stmtIdx, snapshot, dbAtStart, baseAtStart,
                   edits, writes>>
    /\ UNCHANGED <<ops, dumped, fileAtStart>>
    /\ PureUnchanged

\* Begin without the BEGIN query: the statements run outside a transaction
BeginOmitted ==
    /\ pc = "begin"
    /\ snapshot' = db /\ stmtIdx' = 1 /\ pc' = "stmts"
    /\ UNCHANGED <<db, file, baseFile, op, dataset, changes, previewed, dbAtStart,
                   baseAtStart, edits, writes, sent, result, errAt, faults, ops,
                   dumped, fileAtStart>>
    /\ PureUnchanged

\* the transaction of SyncEngine.apply and applyChanges: BEGIN
Begin ==
    /\ pc = "begin"
    /\ \E fail \in FaultChoices :
        /\ faults' = IF fail THEN faults + 1 ELSE faults
        /\ sent' = Append(sent, Query("BEGIN", NoStmt, ~fail))
        /\ IF fail
           THEN /\ result' = "error" /\ errAt' = "begin" /\ pc' = "idle"
                /\ UNCHANGED <<snapshot, stmtIdx>>
           ELSE /\ snapshot' = db /\ stmtIdx' = 1 /\ pc' = "stmts"
                /\ UNCHANGED <<result, errAt>>
    /\ UNCHANGED <<db, file, baseFile, op, dataset, changes, previewed, dbAtStart,
                   baseAtStart, edits, writes>>
    /\ UNCHANGED <<ops, dumped, fileAtStart>>
    /\ PureUnchanged

\* ApplyStatement without the catch block: a rejected query ends apply at once
ApplyStatementNoCatch ==
    /\ pc = "stmts" /\ stmtIdx <= Len(changes)
    /\ \E fail \in FaultChoices :
        LET stmt == generateSql(changes)[stmtIdx]
            res == IF fail THEN Failed("driver") ELSE ExecStatement(schema, db, stmt)
        IN  /\ faults' = IF fail THEN faults + 1 ELSE faults
            /\ sent' = Append(sent, Query(stmt.sql, stmt, res.ok))
            /\ IF res.ok
               THEN db' = res.db /\ stmtIdx' = stmtIdx + 1 /\ UNCHANGED <<pc, errAt, result>>
               ELSE pc' = "idle" /\ errAt' = "stmt" /\ result' = "error"
                    /\ UNCHANGED <<db, stmtIdx>>
    /\ UNCHANGED <<file, baseFile, op, dataset, changes, previewed, snapshot,
                   dbAtStart, baseAtStart, edits, writes, ops, dumped,
                   fileAtStart>>
    /\ PureUnchanged

\* for (const stmt of statements) await client.query(stmt.sql, stmt.params);
\* a rejected query enters the catch block
ApplyStatement ==
    /\ pc = "stmts" /\ stmtIdx <= Len(changes)
    /\ \E fail \in FaultChoices :
        LET stmt == generateSql(changes)[stmtIdx]
            res == IF fail THEN Failed("driver") ELSE ExecStatement(schema, db, stmt)
        IN  /\ faults' = IF fail THEN faults + 1 ELSE faults
            /\ sent' = Append(sent, Query(stmt.sql, stmt, res.ok))
            /\ IF res.ok
               THEN db' = res.db /\ stmtIdx' = stmtIdx + 1 /\ UNCHANGED <<pc, errAt>>
               ELSE pc' = "rollback" /\ errAt' = "stmt" /\ UNCHANGED <<db, stmtIdx>>
    /\ UNCHANGED <<file, baseFile, op, dataset, changes, previewed, snapshot, result,
                   dbAtStart, baseAtStart, edits, writes>>
    /\ UNCHANGED <<ops, dumped, fileAtStart>>
    /\ PureUnchanged

\* await client.query("COMMIT"), then the rest of sync or reset: the base file
\* is rewritten when the file names one
Commit ==
    /\ pc = "stmts" /\ stmtIdx > Len(changes)
    /\ \E fail \in FaultChoices :
        /\ faults' = IF fail THEN faults + 1 ELSE faults
        /\ sent' = Append(sent, Query("COMMIT", NoStmt, ~fail))
        /\ IF fail
           THEN /\ pc' = "rollback" /\ errAt' = "commit"
                /\ UNCHANGED <<result, baseFile>>
           ELSE /\ pc' = "idle" /\ result' = "ok"
                /\ baseFile' = updateBaseFile(file, baseFile, dataset)
                /\ UNCHANGED errAt
    /\ UNCHANGED <<db, file, op, dataset, changes, previewed, stmtIdx, snapshot,
                   dbAtStart, baseAtStart, edits, writes>>
    /\ UNCHANGED <<ops, dumped, fileAtStart>>
    /\ PureUnchanged

\* catch (e) { await client.query("ROLLBACK"); throw e; }: the database drops
\* the transaction's changes, also when the ROLLBACK call is rejected and the
\* connection is closed with the transaction open
Rollback ==
    /\ pc = "rollback"
    /\ \E fail \in FaultChoices :
        /\ faults' = IF fail THEN faults + 1 ELSE faults
        /\ sent' = Append(sent, Query("ROLLBACK", NoStmt, ~fail))
        /\ errAt' = IF fail THEN "rollback" ELSE errAt
    /\ db' = snapshot
    /\ result' = "error" /\ pc' = "idle"
    /\ UNCHANGED <<file, baseFile, op, dataset, changes, previewed, stmtIdx, snapshot,
                   dbAtStart, baseAtStart, edits, writes>>
    /\ UNCHANGED <<ops, dumped, fileAtStart>>
    /\ PureUnchanged

Next ==
    \/ Dump
    \/ UserEdit
    \/ ConcurrentWrite
    \/ Preview
    \/ SyncStart
    \/ ResetStart
    \/ CliPreview
    \/ CliApply
    \/ Begin
    \/ ApplyStatement
    \/ Commit
    \/ Rollback

Spec == Init /\ [][Next]_vars

\* ------------------------------------------------------------------------
\* Specification SpecTree: buildOwnershipTree on the schemas of three tables
\* with up to MaxRels foreign keys between them
\* ------------------------------------------------------------------------
MaxRels == 2

TreeTable(n) ==
    [name |-> n,
     columns |-> <<Column("id"), Column("key"), Column("parentId"), Column("parentKey")>>,
     primaryKey |-> <<"id">>]

TreeTables == <<TreeTable("Organization"), TreeTable("Project"), TreeTable("Task")>>

\* the ON DELETE actions of a foreign key
OnDeleteActions == {"CASCADE", "SET NULL", "RESTRICT"}

\* the single-column and two-column foreign keys between the tables
TreeRelationships ==
    {[id |-> "fkey", fromTable |-> f, fromColumns |-> cols[1],
      toTable |-> t, toColumns |-> cols[2], onDelete |-> a] :
        f \in {"Organization", "Project", "Task"},
        t \in {"Organization", "Project", "Task"},
        a \in OnDeleteActions,
        cols \in {<< <<"parentId">>, <<"id">> >>,
                  << <<"parentId", "parentKey">>, <<"id", "key">> >>}}

TreeSchemas ==
    {[tables |-> TreeTables, relationships |-> rels] :
        rels \in UNION {{q \in [1..n -> TreeRelationships] :
                            \A i, j \in 1..n : q[i] = q[j] => i = j}
                        : n \in 0..MaxRels}}

InitTree ==
    /\ schema \in TreeSchemas
    /\ in1 = <<>> /\ in2 = <<>> /\ out = <<>>
    /\ db = <<>>
    /\ op = "tree" /\ pc = "start"
    /\ EditorIdle

BuildStep ==
    /\ op = "tree" /\ pc = "start"
    /\ out' = [tree |-> buildOwnershipTree(schema),
               classified |-> classifiedRelationships(schema)]
    /\ pc' = "built"
    /\ UNCHANGED <<schema, db, op, in1, in2, changes, stmtIdx, errAt>>
    /\ EditorUnchanged

NextTree == BuildStep

SpecTree == InitTree /\ [][NextTree]_vars

\* ------------------------------------------------------------------------
\* Specification SpecEmit: the statements of emit(order(diff(A, B))) for a
\* schema with a generated column and with a table that has no primary key
\* ------------------------------------------------------------------------
\* CREATE TABLE "Product" (id TEXT PRIMARY KEY, name TEXT,
\*                         label TEXT GENERATED ALWAYS AS (upper(name)) STORED);
\* CREATE TABLE "AuditLog" (message TEXT);
ProductSchema ==
    [tables |-> <<
        [name |-> "Product",
         columns |-> <<Column("id"), Column("name"), GeneratedColumn("label")>>,
         primaryKey |-> <<"id">>],
        [name |-> "AuditLog", columns |-> <<Column("message")>>,
         primaryKey |-> <<>>] >>,
     relationships |-> <<>>]

\* upper(name)
Upper == [a |-> "A", b |-> "B"]

\* the rows the server stores: each generated column holds its computed value
ServerRows(S, t) ==
    {r \in AllRows(S, t) : "label" \in DOMAIN r => r["label"] = Upper[r["name"]]}

\* the row lists of a table: keys distinct when the table has a primary key
EmitRowLists(S, t, rows) ==
    UNION {{q \in [1..n -> rows] :
               \A i, j \in 1..n :
                   (/\ Len(TableOf(S, t).primaryKey) > 0
                    /\ PkKey(q[i], TableOf(S, t).primaryKey)
                          = PkKey(q[j], TableOf(S, t).primaryKey)) => i = j}
           : n \in 0..MaxRows}

\* the datasets fetched from the database
ProductCurrent ==
    TablesTo(TableNames(ProductSchema),
             [t \in Range(TableNames(ProductSchema)) |->
                 EmitRowLists(ProductSchema, t, ServerRows(ProductSchema, t))])

\* the datasets of an edited file: a row carries any value for any column
ProductDesired ==
    TablesTo(TableNames(ProductSchema),
             [t \in Range(TableNames(ProductSchema)) |->
                 EmitRowLists(ProductSchema, t, AllRows(ProductSchema, t))])

InitEmit ==
    /\ schema = ProductSchema
    /\ in1 \in ProductCurrent
    /\ in2 \in ProductDesired
    /\ out = <<>>
    /\ db = <<>>
    /\ op = "emit" /\ pc = "start"
    /\ EditorIdle

EmitStep ==
    /\ op = "emit" /\ pc = "start"
    /\ changes' = orderChangesByDependency(schema, diff(schema, in1, in2))
    /\ out' = generateSql(changes')
    /\ pc' = "emitted"
    /\ UNCHANGED <<schema, db, op, in1, in2, stmtIdx, errAt>>
    /\ EditorUnchanged

NextEmit == EmitStep

SpecEmit == InitEmit /\ [][NextEmit]_vars

\* ------------------------------------------------------------------------
\* Specification SpecLayout: the rows of a database written to a file in flat
\* or nested layout, as dump writes them, and the file parsed back
\* ------------------------------------------------------------------------
\* CREATE TABLE users (id TEXT PRIMARY KEY, name TEXT);
\* CREATE TABLE posts (id TEXT PRIMARY KEY,
\*                     "userId" TEXT REFERENCES users(id) ON DELETE CASCADE);
LowerSchema ==
    [tables |-> <<
        [name |-> "users", columns |-> <<Column("id"), Column("name")>>,
         primaryKey |-> <<"id">>],
        [name |-> "posts", columns |-> <<Column("id"), Column("userId")>>,
         primaryKey |-> <<"id">>] >>,
     relationships |-> <<
        [id |-> "posts_userId_fkey",
         fromTable |-> "posts", fromColumns |-> <<"userId">>,
         toTable |-> "users", toColumns |-> <<"id">>,
         onDelete |-> "CASCADE"] >>]

\* the Organization/Project schema with a column of Organization that is named
\* like the camelCase key of its child table
ClashSchema ==
    [tables |-> <<
        [name |-> "Organization", columns |-> <<Column("id"), Column("project")>>,
         primaryKey |-> <<"id">>],
        [name |-> "Project", columns |-> <<Column("id"), Column("organizationId")>>,
         primaryKey |-> <<"id">>] >>,
     relationships |-> OrgSchema.relationships]

LayoutSchemas == {OrgSchema, LowerSchema, ClashSchema}

InitLayout ==
    /\ schema \in LayoutSchemas
    /\ db \in Databases(schema)
    /\ in1 = fetchCurrentData(schema, db)
    /\ in2 = <<>> /\ out = <<>>
    /\ op = "layout" /\ pc = "start"
    /\ EditorIdle

\* the user-facing file of dump, without limits and without base
WriteStep ==
    /\ op = "layout" /\ pc = "start"
    /\ \E flat \in BOOLEAN :
          /\ dumped' = [flat |-> flat, limit |-> -1, nestedLimit |-> -1,
                        createBase |-> FALSE]
          /\ file' = JsonFile(FALSE,
                         IF flat
                         THEN serializeFlatDataset(in1, NoTruncation)
                         ELSE toNested(in1, schema, buildOwnershipTree(schema), NoLimit))
    /\ pc' = "written"
    /\ UNCHANGED <<schema, db, baseFile, op, dataset, changes, previewed, stmtIdx,
                   snapshot, sent, result, errAt, dbAtStart, baseAtStart, faults,
                   edits, writes, ops, fileAtStart, in1, in2, out>>

\* DatabaseEditor._parseFile on the written file; result records the layout
\* that _isNestedFormat detected
ReadStep ==
    /\ op = "layout" /\ pc = "written"
    /\ dataset' = parseFile(schema, file).dataset
    /\ result' = IF isNestedFormat(file.data, buildOwnershipTree(schema))
                 THEN "nested" ELSE "flat"
    /\ pc' = "parsed"
    /\ UNCHANGED <<schema, db, file, baseFile, op, changes, previewed, stmtIdx,
                   snapshot, sent, errAt, dbAtStart, baseAtStart, faults,
                   edits, writes, ops, dumped, fileAtStart, in1, in2, out>>

NextLayout == WriteStep \/ ReadStep

SpecLayout == InitLayout /\ [][NextLayout]_vars

\* ------------------------------------------------------------------------
\* Specification SpecOrder: orderChangesByDependency on the change sets of up
\* to MaxChanges changes over a chain of three tables
\* ------------------------------------------------------------------------
MaxChanges == 3

\* Task.parentId -> Project.id, Project.parentId -> Organization.id
ChainRelationships ==
    << [id |-> "Task_parentId_fkey", fromTable |-> "Task",
        fromColumns |-> <<"parentId">>, toTable |-> "Project",
        toColumns |-> <<"id">>, onDelete |-> "CASCADE"],
       [id |-> "Project_parentId_fkey", fromTable |-> "Project",
        fromColumns |-> <<"parentId">>, toTable |-> "Organization",
        toColumns |-> <<"id">>, onDelete |-> "RESTRICT"] >>

\* the chain with its tables declared parents first, and children first
ChainSchemas ==
    {[tables |-> TreeTables, relationships |-> ChainRelationships],
     [tables |-> <<TreeTable("Task"), TreeTable("Project"), TreeTable("Organization")>>,
      relationships |-> ChainRelationships]}

OrderKeys == {"o1", "o2"}

\* the changes of a ChangeSet: one of each kind per table and key
OrderChanges ==
    UNION {{[type |-> "insert", table |-> t,
             row |-> [id |-> k, key |-> "a", parentId |-> NULL, parentKey |-> NULL]],
            [type |-> "update", table |-> t, primaryKey |-> [id |-> k],
             oldValues |-> [key |-> "a"], newValues |-> [key |-> "b"]],
            [type |-> "delete", table |-> t, primaryKey |-> [id |-> k],
             oldRow |-> [id |-> k, key |-> "a", parentId |-> NULL, parentKey |-> NULL]]}
           : t \in {"Organization", "Project", "Task"}, k \in OrderKeys}

InitOrder ==
    /\ schema \in ChainSchemas
    /\ in1 \in UNION {[1..n -> OrderChanges] : n \in 0..MaxChanges}
    /\ in2 = <<>> /\ out = <<>>
    /\ db = <<>>
    /\ op = "order" /\ pc = "start"
    /\ EditorIdle

OrderStep ==
    /\ op = "order" /\ pc = "start"
    /\ changes' = orderChangesByDependency(schema, in1)
    /\ pc' = "ordered"
    /\ UNCHANGED <<schema, db, op, in1, in2, out, stmtIdx, errAt>>
    /\ EditorUnchanged

NextOrder == OrderStep

SpecOrder == InitOrder /\ [][NextOrder]_vars

\* ------------------------------------------------------------------------
\* Specification SpecJson: diff(A, B) for a table with a JSON column
\* ------------------------------------------------------------------------
\* CREATE TABLE "Document" (id TEXT PRIMARY KEY, title TEXT, settings JSON);
DocumentSchema ==
    [tables |-> <<
        [name |-> "Document",
         columns |-> <<Column("id"), Column("title"), Column("settings")>>,
         primaryKey |-> <<"id">>] >>,
     relationships |-> <<>>]

DocumentDatasets ==
    TablesTo(TableNames(DocumentSchema),
             [t \in Range(TableNames(DocumentSchema)) |-> RowLists(DocumentSchema, t)])

InitJson ==
    /\ schema = DocumentSchema
    /\ in1 \in DocumentDatasets
    /\ in2 \in DocumentDatasets
    /\ out = <<>>
    /\ db = <<>>
    /\ op = "json" /\ pc = "start"
    /\ EditorIdle

JsonDiffStep ==
    /\ op = "json" /\ pc = "start"
    /\ changes' = diff(schema, in1, in2)
    /\ pc' = "diffed"
    /\ UNCHANGED <<schema, db, op, in1, in2, out, stmtIdx, errAt>>
    /\ EditorUnchanged

NextJson == JsonDiffStep

SpecJson == InitJson /\ [][NextJson]_vars

\* ------------------------------------------------------------------------
\* Specification SpecEdit: a nested file written from a base dataset, one edit
\* of the user that collapses a child row into a RefMarker or moves a child row
\* to another parent, and the change set of the base against the edited file
\* ------------------------------------------------------------------------
\* CREATE TABLE "Organization" (id TEXT PRIMARY KEY, name TEXT);
\* CREATE TABLE "Project" (id TEXT PRIMARY KEY, name TEXT,
\*     "organizationId" TEXT REFERENCES "Organization"(id) ON DELETE CASCADE);
\* CREATE TABLE "Task" (id TEXT PRIMARY KEY,
\*     "projectId" TEXT REFERENCES "Project"(id) ON DELETE CASCADE);
EditSchema ==
    [tables |-> <<
        [name |-> "Organization", columns |-> <<Column("id"), Column("name")>>,
         primaryKey |-> <<"id">>],
        [name |-> "Project",
         columns |-> <<Column("id"), Column("organizationId"), Column("name")>>,
         primaryKey |-> <<"id">>],
        [name |-> "Task", columns |-> <<Column("id"), Column("projectId")>>,
         primaryKey |-> <<"id">>] >>,
     relationships |-> <<
        [id |-> "Project_organizationId_fkey", fromTable |-> "Project",
         fromColumns |-> <<"organizationId">>, toTable |-> "Organization",
         toColumns |-> <<"id">>, onDelete |-> "CASCADE"],
        [id |-> "Task_projectId_fkey", fromTable |-> "Task",
         fromColumns |-> <<"projectId">>, toTable |-> "Project",
         toColumns |-> <<"id">>, onDelete |-> "CASCADE"] >>]

\* the lists of at most MaxRows rows with the keys k1, k2 in this order
KeyedLists(rows, k1, k2) ==
    {<<>>} \cup {<<r>> : r \in rows}
    \cup {<<r1, r2>> : r1 \in {r \in rows : r.id = k1}, r2 \in {r \in rows : r.id = k2}}

\* the base datasets: two organizations, projects and tasks with their parents
EditBases ==
    {[Organization |-> <<[id |-> "o1", name |-> "a"], [id |-> "o2", name |-> "a"]>>,
      Project |-> ps, Task |-> ts] :
        ps \in KeyedLists({[id |-> i, organizationId |-> o, name |-> "a"] :
                              i \in {"p1", "p2"}, o \in {"o1", "o2"}}, "p1", "p2"),
        ts \in KeyedLists({[id |-> i, projectId |-> q] :
                              i \in {"i1", "i2"}, q \in {"p1", "p2"}}, "i1", "i2")}

InitEdit ==
    /\ schema = EditSchema
    /\ in1 \in {b \in EditBases :
                  \A k \in 1..Len(b.Task) :
                      \E j \in 1..Len(b.Project) : b.Project[j].id = b.Task[k].projectId}
    /\ in2 = toNested(in1, schema, buildOwnershipTree(schema), NoLimit)
    /\ out = <<>>
    /\ db = <<>>
    /\ op = "edit" /\ pc = "written"
    /\ EditorIdle

\* the places of the nested Project rows and of the nested Task rows
ProjectPlaces(data) ==
    UNION {{<<i, j>> : j \in 1..Len(data.organization[i].project)}
           : i \in 1..Len(data.organization)}

TaskPlaces(data) ==
    UNION {{<<pl[1], pl[2], k>> :
               k \in 1..(IF isRefMarker(data.organization[pl[1]].project[pl[2]]) THEN 0
                         ELSE Len(data.organization[pl[1]].project[pl[2]].task))}
           : pl \in ProjectPlaces(data)}

\* the user replaces a nested child row by a RefMarker with the row's key
CollapseStep ==
    /\ op = "edit" /\ pc = "written"
    /\ \/ \E pl \in ProjectPlaces(in2) :
             LET row == in2.organization[pl[1]].project[pl[2]]
             IN  /\ in2' = [in2 EXCEPT !.organization[pl[1]].project[pl[2]] =
                                RefMarker([id |-> row.id])]
                 /\ out' = [kind |-> "ref", table |-> "Project", id |-> row.id]
       \/ \E pl \in TaskPlaces(in2) :
             LET row == in2.organization[pl[1]].project[pl[2]].task[pl[3]]
             IN  /\ in2' = [in2 EXCEPT !.organization[pl[1]].project[pl[2]].task[pl[3]] =
                                RefMarker([id |-> row.id])]
                 /\ out' = [kind |-> "ref", table |-> "Task", id |-> row.id]
    /\ pc' = "edited"
    /\ UNCHANGED <<schema, db, op, in1, changes, stmtIdx, errAt>>
    /\ EditorUnchanged

\* the user moves a nested child row, as written or together with the foreign
\* key column of its old parent, to the end of another parent's list
MoveStep ==
    /\ op = "edit" /\ pc = "written"
    /\ \E carried \in BOOLEAN :
        \/ \E pl \in ProjectPlaces(in2) :
             \E i \in 1..Len(in2.organization) :
                 LET from == in2.organization[pl[1]]
                     row == from.project[pl[2]]
                     moved == IF carried THEN SetKey(row, "organizationId", from.id)
                              ELSE row
                 IN  /\ i # pl[1]
                     /\ in2' = [in2 EXCEPT
                                  !.organization[pl[1]].project = RemoveAt(@, pl[2]),
                                  !.organization[i].project = Append(@, moved)]
                     /\ out' = [kind |-> "move", table |-> "Project", id |-> row.id,
                                column |-> "organizationId", from |-> from.id,
                                to |-> in2.organization[i].id, carried |-> carried]
        \/ \E pl \in TaskPlaces(in2) :
             \E to \in ProjectPlaces(in2) :
                 LET from == in2.organization[pl[1]].project[pl[2]]
                     row == from.task[pl[3]]
                     moved == IF carried THEN SetKey(row, "projectId", from.id) ELSE row
                     removed == [in2 EXCEPT
                                   !.organization[pl[1]].project[pl[2]].task =
                                       RemoveAt(@, pl[3])]
                 IN  /\ to # <<pl[1], pl[2]>>
                     /\ in2' = [removed EXCEPT
                                  !.organization[to[1]].project[to[2]].task =
                                      Append(@, moved)]
                     /\ out' = [kind |-> "move", table |-> "Task", id |-> row.id,
                                column |-> "projectId", from |-> from.id,
                                to |-> in2.organization[to[1]].project[to[2]].id,
                                carried |-> carried]
    /\ pc' = "edited"
    /\ UNCHANGED <<schema, db, op, in1, changes, stmtIdx, errAt>>
    /\ EditorUnchanged

\* the change set of the base against the edited file: fromNested, then diff
EditDiffStep ==
    /\ op = "edit" /\ pc = "edited"
    /\ dataset' = fromNested(in2, schema, buildOwnershipTree(schema))
    /\ changes' = diff(schema, in1, dataset')
    /\ pc' = "diffed"
    /\ UNCHANGED <<schema, db, file, baseFile, op, previewed, stmtIdx, snapshot,
                   sent, result, errAt, dbAtStart, baseAtStart, faults, edits,
                   writes, ops, dumped, fileAtStart, in1, in2, out>>

NextEdit == CollapseStep \/ MoveStep \/ EditDiffStep

SpecEdit == InitEdit /\ [][NextEdit]_vars

\* ------------------------------------------------------------------------
\* Specification SpecRepeat: the editor of Spec with each command run to its
\* end in one step on a driver that rejects no call, up to MaxRepeats commands
\* on the file, the user and the other clients acting between them.  out is
\* the log of the commands that have ended.
\* ------------------------------------------------------------------------
MaxRepeats == 2

\* for (const stmt of statements) await client.query(...): the database after
\* the statements from the i-th on, or the index of the rejected statement
RECURSIVE RunStatements(_, _, _, _)
RunStatements(S, d, stmts, i) ==
    IF i > Len(stmts) THEN [ok |-> TRUE, db |-> d, dml |-> Len(stmts)]
    ELSE LET res == ExecStatement(S, d, stmts[i])
         IN  IF res.ok THEN RunStatements(S, res.db, stmts, i + 1)
             ELSE [ok |-> FALSE, db |-> d, dml |-> i]

\* COMMIT keeps what the statements wrote, ROLLBACK the database at BEGIN
Settled(d, run) ==
    [ok |-> run.ok, db |-> IF run.ok THEN run.db ELSE d, dml |-> run.dml]

\* BEGIN, the statements, COMMIT; ROLLBACK when a statement is rejected
runTransaction(S, d, cs) == Settled(d, RunStatements(S, d, generateSql(cs), 1))

\* how a command ended: its result, the ChangeSet it returned or printed, the
\* number of INSERT, UPDATE and DELETE statements it sent, and what it left
Outcome(res, cs, dml, d, base) ==
    [result |-> res, changes |-> cs, dml |-> dml, db |-> d, base |-> base]

\* after engine.apply: _updateBaseFile and the ChangeSet when it returned, the
\* rethrown error when it threw
Applied(cs, run, d, base, newBase) ==
    IF run.ok THEN Outcome("ok", cs, run.dml, run.db, newBase)
    ELSE Outcome("error", cs, run.dml, d, base)

\* DatabaseEditor.sync(inputPath)
editorSync(S, f, base, d) ==
    LET parsed == parseFile(S, f)
        loaded == loadBaseFile(f, base)
    IN  IF parsed.isPartial THEN Outcome("truncated", <<>>, 0, d, base)
        ELSE IF loaded = NoBase THEN Outcome("missingBase", <<>>, 0, d, base)
        ELSE LET cs == diffAgainstBase(S, loaded.dataset, parsed.dataset)
             IN  Applied(cs, runTransaction(S, d, cs), d, base,
                         updateBaseFile(f, base, parsed.dataset))

\* DatabaseEditor.reset(inputPath): SyncEngine.apply returns before BEGIN when
\* the ChangeSet is empty
editorReset(S, f, base, d) ==
    LET parsed == parseFile(S, f)
    IN  IF parsed.isPartial THEN Outcome("truncated", <<>>, 0, d, base)
        ELSE LET cs == enginePreview(S, fetchCurrentData(S, d), parsed.dataset)
             IN  Applied(cs,
                         IF Len(cs) = 0 THEN [ok |-> TRUE, db |-> d, dml |-> 0]
                         ELSE runTransaction(S, d, cs),
                         d, base, updateBaseFile(f, base, parsed.dataset))

\* cli.ts, the sync command after editor.preview(file): editor.reset(file)
\* unless the previewed ChangeSet is empty; the ChangeSet is the printed one
Confirmed(pv, reset, d, base) ==
    IF pv.result # "ok" \/ Len(pv.changes) = 0
    THEN Outcome(pv.result, <<>>, 0, d, base)
    ELSE [reset EXCEPT !.changes = pv.changes]

cliSync(S, f, base, d) ==
    Confirmed(editorPreview(S, f, base, d, TRUE), editorReset(S, f, base, d),
              d, base)

Ended(cmd, o) ==
    [cmd |-> cmd, result |-> o.result, changes |-> o.changes, dml |-> o.dml,
     file |-> file]

\* a command returns: what it left in the database and the base file, and the
\* record of how it ended
Returned(cmd, o) ==
    /\ db' = o.db /\ baseFile' = o.base
    /\ op' = cmd /\ result' = o.result /\ changes' = o.changes
    /\ out' = Append(out, Ended(cmd, o))
    /\ UNCHANGED <<schema, file, pc, dataset, previewed, stmtIdx, snapshot, sent,
                   errAt, dbAtStart, baseAtStart, fileAtStart, faults, edits,
                   writes, ops, dumped, in1, in2>>

\* the preview as an outcome: it sends no statement and writes nothing
Previewed(pv, d, base) == Outcome(pv.result, pv.changes, 0, d, base)

\* DatabaseEditor.sync, from call to return
SyncCommand ==
    /\ pc = "idle" /\ file # NoFile /\ Len(out) < MaxRepeats
    /\ Returned("sync", editorSync(schema, file, baseFile, db))

\* the sync command of the CLI, from call to return
CliSyncCommand ==
    /\ pc = "idle" /\ file # NoFile /\ Len(out) < MaxRepeats
    /\ Returned("cliSync", cliSync(schema, file, baseFile, db))

\* DatabaseEditor.preview, from call to return
PreviewCommand ==
    /\ pc = "idle" /\ file # NoFile /\ Len(out) < MaxRepeats
    /\ Returned("preview",
                Previewed(editorPreview(schema, file, baseFile, db, TRUE),
                          db, baseFile))

NextRepeat ==
    \/ Dump
    \/ UserEdit
    \/ ConcurrentWrite
    \/ SyncCommand
    \/ CliSyncCommand
    \/ PreviewCommand

SpecRepeat == Init /\ [][NextRepeat]_vars

\* ------------------------------------------------------------------------
\* Claims
\* ------------------------------------------------------------------------
\* C1: for every flat dataset D with unique primary keys,
\* fromNested(toNested(D).data) holds, for every table of the schema, exactly
\* the rows of D with every column value unchanged.
C1_RoundTrip ==
    pc = "flat" =>
        \A t \in Range(TableNames(schema)) : RowSet(in2, t) = RowSet(in1, t)

\* C2: executing generateSql(orderChangesByDependency(schema, diff(schema, A, B)))
\* statement by statement against a database that holds A leaves it with, per
\* table, exactly the rows of B.
C2_DiffComplete ==
    (op = "diff" /\ pc \in {"done", "failed"}) =>
        \A t \in Range(TableNames(schema)) : db[t] = RowSet(in2, t)

\* C3: executing the statements of an ordered change set one after another,
\* foreign keys checked at each statement, never violates a foreign key.
C3_FkSafeOrdering ==
    op = "diff" => ~(pc = "failed" /\ errAt = "fk")


\* ------------------------------------------------------------------------
\* Helpers of the claims about the editor
\* ------------------------------------------------------------------------
KeysOf(S, flat, t) ==
    {extractPrimaryKey(r, TableOf(S, t).primaryKey) : r \in RowSet(flat, t)}

ChangeKey(S, c) ==
    IF c.type = "insert" THEN extractPrimaryKey(c.row, TableOf(S, c.table).primaryKey)
    ELSE c.primaryKey

\* the dataset the file parses to and the dataset of the base it names
Edited == parseFile(schema, file).dataset

BaseData == loadBaseFile(file, baseFile).dataset

HasBase == file # NoFile /\ loadBaseFile(file, baseFile) # NoBase

\* the queries of the transaction: the log without the SELECTs of the fetch
TxLog == SelectSeq(sent, LAMBDA e : e.q # "SELECT")

IsStatement(e) == e.q \in {"INSERT", "UPDATE", "DELETE"}

Last(s) == s[Len(s)]

\* the operations that run SyncEngine.apply
ApplyOps == {"reset", "cliSync"}

\* a partial marker in a list of the file or in a child list of one of its rows
RECURSIVE NodeHasPartial(_, _)
NodeHasPartial(S, node) ==
    \/ isPartialMarker(node)
    \/ \E c \in ChildKeys(S, node) : \E i \in 1..Len(node[c]) : NodeHasPartial(S, node[c][i])

HasPartial(S, data) ==
    \E k \in DOMAIN data : \E i \in 1..Len(data[k]) : NodeHasPartial(S, data[k][i])

\* the rows a dataset gives for a table, as the database stores them
StoredRows(S, flat, t) ==
    {[c \in ColumnNames(TableOf(S, t)) |-> SqlParam(Get(r, c))] : r \in RowSet(flat, t)}

StoredDatabase(S, flat) == [t \in Range(TableNames(S)) |-> StoredRows(S, flat, t)]

\* C4: preview of a complete file whose base exists queries nothing and returns
\* the diff of the base against the parsed file: a delete for every key only in
\* the base, an insert for every key only in the file, updates only for keys in
\* both, and no change for a row that only the database holds.
C4_PreviewThreeWay ==
    (op = "preview" /\ pc = "idle" /\ result = "ok" /\ HasBase) =>
        /\ sent = <<>>
        /\ \A i \in 1..Len(previewed) :
              LET c == previewed[i]
                  inBase == ChangeKey(schema, c) \in KeysOf(schema, BaseData, c.table)
                  inFile == ChangeKey(schema, c) \in KeysOf(schema, Edited, c.table)
              IN  /\ c.type = "insert" => (~inBase /\ c.row \in RowSet(Edited, c.table))
                  /\ c.type = "delete" => (inBase /\ ~inFile)
                  /\ c.type = "update" => (inBase /\ inFile)
        /\ \A t \in Range(TableNames(schema)) :
              /\ \A k \in KeysOf(schema, Edited, t) \ KeysOf(schema, BaseData, t) :
                    \E i \in 1..Len(previewed) :
                        /\ previewed[i].type = "insert" /\ previewed[i].table = t
                        /\ ChangeKey(schema, previewed[i]) = k
              /\ \A k \in KeysOf(schema, BaseData, t) \ KeysOf(schema, Edited, t) :
                    \E i \in 1..Len(previewed) :
                        /\ previewed[i].type = "delete" /\ previewed[i].table = t
                        /\ ChangeKey(schema, previewed[i]) = k

\* a three-way preview returned changes while the database holds a row whose
\* key is neither in the base nor in the file
C4_Witness ==
    /\ op = "preview" /\ pc = "idle" /\ result = "ok" /\ HasBase
    /\ Len(previewed) > 0
    /\ \E t \in Range(TableNames(schema)) : \E r \in db[t] :
          LET k == extractPrimaryKey(r, TableOf(schema, t).primaryKey)
          IN  k \notin KeysOf(schema, BaseData, t) /\ k \notin KeysOf(schema, Edited, t)

\* C5: when the CLI sync command has previewed, for a complete file against
\* its base, only inserts of rows whose keys the database does not hold, and
\* ends without error, it has applied exactly the previewed change set and the
\* database still holds every row it held when the transaction began.
C5_CliSyncKeepsConcurrent ==
    (/\ op = "cliSync" /\ pc = "idle" /\ result = "ok" /\ HasBase
     /\ ~HasPartial(schema, file.data)
     /\ Len(previewed) > 0
     /\ \A i \in 1..Len(previewed) :
           /\ previewed[i].type = "insert"
           /\ \A r \in dbAtStart[previewed[i].table] :
                 extractPrimaryKey(r, TableOf(schema, previewed[i].table).primaryKey)
                     # ChangeKey(schema, previewed[i])) =>
        /\ changes = previewed
        /\ \A t \in Range(TableNames(schema)) : snapshot[t] \subseteq db[t]

\* C6: preview, sync and reset of a file that holds a partial marker anywhere
\* end with the truncation error and send no INSERT, UPDATE or DELETE.
C6_TruncationRefused ==
    (op \in {"preview", "sync", "reset"} /\ HasPartial(schema, file.data)) =>
        /\ pc = "idle" /\ result = "truncated"
        /\ \A i \in 1..Len(sent) : ~IsStatement(sent[i])

\* C7 as claimed: when the driver raises an error on any call made by
\* SyncEngine.apply, apply sends ROLLBACK, sends no COMMIT, rejects, and the
\* database's rows are those it held before apply started.
C7_RollbackOnAnyError ==
    (op \in ApplyOps /\ pc = "idle" /\ result = "error") =>
        /\ \E i \in 1..Len(TxLog) : TxLog[i].q = "ROLLBACK"
        /\ \A i \in 1..Len(TxLog) : TxLog[i].q # "COMMIT"
        /\ db = dbAtStart

\* C7 as amended: when the driver raises an error on one of the generated
\* statements of SyncEngine.apply, apply sends ROLLBACK as its last query, sends
\* no COMMIT and rejects; when the driver resolves the ROLLBACK, apply rejects
\* with the statement's error and the database's rows are those it held before
\* apply started.
C7_RollbackOnStatementError ==
    (/\ op \in ApplyOps /\ pc = "idle"
     /\ \E i \in 1..Len(TxLog) : IsStatement(TxLog[i]) /\ ~TxLog[i].ok) =>
        /\ result = "error"
        /\ Last(TxLog).q = "ROLLBACK"
        /\ ~Last(SubSeq(TxLog, 1, Len(TxLog) - 1)).ok
        /\ \A i \in 1..Len(TxLog) : TxLog[i].q # "COMMIT"
        /\ Last(TxLog).ok => (errAt = "stmt" /\ db = dbAtStart)

\* apply has executed a statement, the next one was rejected, and the ROLLBACK
\* was resolved
C7_Witness ==
    /\ op \in ApplyOps /\ pc = "idle" /\ result = "error"
    /\ Len(TxLog) > 0
    /\ Last(TxLog).q = "ROLLBACK" /\ Last(TxLog).ok
    /\ \E i, j \in 1..Len(TxLog) :
          /\ i < j
          /\ IsStatement(TxLog[i]) /\ TxLog[i].ok
          /\ IsStatement(TxLog[j]) /\ ~TxLog[j].ok

\* C8 as claimed: in every finished run of apply with a non-empty change set
\* the driver has received BEGIN, then each generated statement exactly once in
\* the order of the change set, then exactly one of COMMIT or ROLLBACK.
C8_BracketEveryRun ==
    (op \in ApplyOps /\ pc = "idle" /\ Len(changes) > 0) =>
        LET stmts == generateSql(changes)
            n == Len(stmts)
        IN  /\ Len(TxLog) = n + 2
            /\ TxLog[1].q = "BEGIN"
            /\ \A i \in 1..n : TxLog[i + 1].stmt = stmts[i]
            /\ TxLog[n + 2].q \in {"COMMIT", "ROLLBACK"}

\* C8 as amended: in every run of apply with a non-empty change set the driver
\* receives BEGIN first; then the generated statements in the order of the
\* change set, each at most once, up to the first one that is rejected; then
\* COMMIT when every statement was resolved, or ROLLBACK after a rejected
\* statement or a rejected COMMIT; nothing follows a rejected BEGIN.  A run
\* that resolves has sent BEGIN, every statement exactly once and COMMIT.
C8_Bracket ==
    (op \in ApplyOps /\ Len(changes) > 0 /\ TxLog # <<>>) =>
        LET tx == TxLog
            stmts == generateSql(changes)
            n == Len(stmts)
            k == Cardinality({i \in 1..Len(tx) : IsStatement(tx[i])})
            tail == [i \in 1..(Len(tx) - k - 1) |-> tx[i + k + 1].q]
        IN  /\ tx[1].q = "BEGIN"
            /\ ~tx[1].ok => Len(tx) = 1
            /\ k <= n
            /\ \A i \in 1..k : IsStatement(tx[i + 1]) /\ tx[i + 1].stmt = stmts[i]
            /\ \A i \in 1..(k - 1) : tx[i + 1].ok
            /\ tail \in {<<>>, <<"COMMIT">>, <<"ROLLBACK">>, <<"COMMIT", "ROLLBACK">>}
            /\ (Len(tail) > 0 /\ tail[1] = "COMMIT") => (k = n /\ tx[k + 1].ok)
            /\ tail = <<"ROLLBACK">> => (k >= 1 /\ ~tx[k + 1].ok)
            /\ tail = <<"COMMIT", "ROLLBACK">> => ~tx[k + 2].ok
            /\ (pc = "idle" /\ result = "ok") => (tail = <<"COMMIT">> /\ tx[k + 2].ok)
            /\ (pc = "idle" /\ result = "error" /\ tx[1].ok) =>
                  (Len(tail) > 0 /\ Last(tail) = "ROLLBACK")

\* apply has committed a change set of at least two changes
C8_Witness ==
    /\ op \in ApplyOps /\ pc = "idle" /\ result = "ok"
    /\ Len(changes) >= 2
    /\ Last(TxLog).q = "COMMIT"

\* C9: while sync or reset runs, and when it ends with an error, the base file
\* is the one the operation started with; when it ends without error on a file
\* that names a base, the base file holds the flat form of the edited file.
C9_BaseAfterCommit ==
    op \in {"sync", "reset"} =>
        /\ (pc # "idle" \/ result # "ok") => baseFile = baseAtStart
        /\ (pc = "idle" /\ result = "ok" /\ file.base) =>
              baseFile = JsonFile(FALSE, serializeFlatDataset(Edited, NoTruncation))

\* a sync or reset of an edited file was rolled back and the base file still
\* differs from the flat form of the edited file
C9_Witness ==
    /\ op \in {"sync", "reset"} /\ pc = "idle" /\ result = "error"
    /\ file.base /\ baseFile # NoFile
    /\ \E i \in 1..Len(TxLog) : TxLog[i].q = "ROLLBACK"
    /\ baseFile # JsonFile(FALSE, serializeFlatDataset(Edited, NoTruncation))

\* C10: after a reset that ends without error, of a file whose rows have
\* distinct keys and dangle no foreign key, with no other client writing,
\* every table of the database holds exactly the rows the file gives for it.
C10_ResetMatchesFile ==
    (/\ op = "reset" /\ pc = "idle" /\ result = "ok" /\ writes = 0
     /\ PkUnique(schema, StoredDatabase(schema, Edited))
     /\ FkConsistent(schema, StoredDatabase(schema, Edited))) =>
        \A t \in Range(TableNames(schema)) : db[t] = StoredRows(schema, Edited, t)

\* ------------------------------------------------------------------------
\* Helpers of the claims about dump
\* ------------------------------------------------------------------------
\* the lists of the user-facing file that hold the rows of a whole table: one
\* per table in flat layout, one per root table in nested layout
DumpedTables(S, o) ==
    IF o.flat THEN Range(TableNames(S)) ELSE Range(buildOwnershipTree(S).roots)

DumpedKey(o, t) == IF o.flat THEN t ELSE toCamelCase(t)

SameKey(S, t, r1, r2) ==
    \A c \in Range(TableOf(S, t).primaryKey) : Get(r1, c) = Get(r2, c)

\* C11: the base file written by dump holds, for every table of the schema,
\* all rows of the table, whatever limit the dump was taken with, and holds no
\* partial marker.
C11_BaseNeverTruncated ==
    (op = "dump" /\ dumped.createBase) =>
        \A t \in Range(TableNames(schema)) :
            /\ t \in DOMAIN baseFile.data
            /\ Range(baseFile.data[t]) = db[t]
            /\ \A i \in 1..Len(baseFile.data[t]) : ~isPartialMarker(baseFile.data[t][i])

\* C12: after a dump with limit L, for every table that holds more than L rows
\* (every such root table in nested layout) the list of the user-facing file
\* holds the first L rows followed by exactly one partial marker whose skipped
\* value is the row count minus L.
C12_LimitMarked ==
    (op = "dump" /\ dumped.limit >= 0) =>
        \A t \in DumpedTables(schema, dumped) :
            Cardinality(db[t]) > dumped.limit =>
                LET list == file.data[DumpedKey(dumped, t)]
                    rows == SelectOrdered(db[t], TableOf(schema, t).primaryKey)
                    L == dumped.limit
                IN  /\ Len(list) = L + 1
                    /\ list[L + 1] = PartialMarker(Cardinality(db[t]) - L)
                    /\ \A i \in 1..L :
                          /\ ~isPartialMarker(list[i])
                          /\ SameKey(schema, t, list[i], rows[i])

\* ------------------------------------------------------------------------
\* Helpers of the claims about the ownership tree
\* ------------------------------------------------------------------------
\* following getDominantParent from the table reaches a root within n steps
RECURSIVE ReachesRoot(_, _, _)
ReachesRoot(T, t, n) ==
    IF getDominantParent(T, t) = NoEdge THEN TRUE
    ELSE IF n = 0 THEN FALSE
    ELSE ReachesRoot(T, getDominantParent(T, t).parentTable, n - 1)

IsOwning(rel) == rel.fromTable # rel.toTable /\ rel.onDelete = "CASCADE"

\* the edges getChildren and getDominantParent return for the tables of S
TreeEdges(S, T) ==
    UNION {Range(getChildren(T, t)) : t \in Range(TableNames(S))}
    \cup {getDominantParent(T, t) : t \in DOMAIN T.dominantParent}

\* C13: buildOwnershipTree returns a tree whose dominant edges are acyclic
\* (or fails, which the code never does): following getDominantParent from
\* any table reaches a root in finitely many steps.
C13_OwnershipAcyclic ==
    (op = "tree" /\ pc = "built") =>
        \A t \in Range(TableNames(schema)) :
            ReachesRoot(out.tree, t, Len(schema.tables))

\* C20: a relationship is classified composition if and only if its
\* from_table differs from its to_table and its on_delete action is CASCADE;
\* every relationship is classified once, and every edge of getChildren and
\* getDominantParent is made of a composition, so no reference and no
\* self-referential relationship contributes an edge.
C20_Classification ==
    (op = "tree" /\ pc = "built") =>
        /\ \A i \in 1..Len(schema.relationships) :
              LET rel == schema.relationships[i]
                  at == {j \in 1..Len(out.classified) :
                            out.classified[j].relationship = rel}
              IN  /\ Cardinality(at) = 1
                  /\ \A j \in at :
                        out.classified[j].kind = "composition" <=> IsOwning(rel)
        /\ Len(out.classified) = Len(schema.relationships)
        /\ \A e \in TreeEdges(schema, out.tree) :
              /\ IsOwning(e.relationship)
              /\ e.relationship \in Range(schema.relationships)
              /\ e.parentTable = e.relationship.toTable
              /\ e.childTable = e.relationship.fromTable

\* a tree was built for a schema with a self-referential CASCADE foreign key
\* and a composition that became an edge
C20_Witness ==
    /\ op = "tree" /\ pc = "built"
    /\ \E i \in 1..Len(schema.relationships) :
          /\ schema.relationships[i].fromTable = schema.relationships[i].toTable
          /\ schema.relationships[i].onDelete = "CASCADE"
    /\ TreeEdges(schema, out.tree) # {}

\* C14: sync on a file that has no $base reference, or whose base file does
\* not exist, ends with the missing-base error and sends no BEGIN, INSERT,
\* UPDATE or DELETE; for DatabaseEditor.sync and for the CLI sync command.
C14_SyncRequiresBase ==
    (/\ op \in {"sync", "cliSync"} /\ pc = "idle"
     /\ ~HasBase /\ ~parseFile(schema, file).isPartial) =>
        /\ result = "missingBase"
        /\ \A i \in 1..Len(sent) : sent[i].q = "SELECT"

\* C15: preview sends no INSERT, UPDATE, DELETE, BEGIN or COMMIT and writes
\* neither the input file nor the base file: after it the database rows, the
\* file and the base file are those it started with.
C15_PreviewChangesNothing ==
    op = "preview" =>
        /\ pc = "idle"
        /\ \A i \in 1..Len(sent) : sent[i].q = "SELECT"
        /\ db = dbAtStart
        /\ file = fileAtStart
        /\ baseFile = baseAtStart

\* preview of an edited file returned changes: once against the base without
\* a query, once against the fetched database
C15_Witness ==
    /\ op = "preview" /\ pc = "idle" /\ result = "ok"
    /\ Len(previewed) > 0 /\ edits > 0
    /\ HasBase /\ sent = <<>>
    /\ baseFile # JsonFile(FALSE, serializeFlatDataset(Edited, NoTruncation))

\* ------------------------------------------------------------------------
\* Helpers of the claims about the emitted statements
\* ------------------------------------------------------------------------
GeneratedColumns(S, t) ==
    {TableOf(S, t).columns[i].name :
        i \in {j \in 1..Len(TableOf(S, t).columns) : TableOf(S, t).columns[j].isGenerated}}

\* the columns an INSERT or UPDATE statement writes
ColumnsWritten(stmt) ==
    IF stmt.sql = "INSERT" THEN DOMAIN stmt.values
    ELSE IF stmt.sql = "UPDATE" THEN DOMAIN stmt.set
    ELSE {}

\* C16: no INSERT or UPDATE statement produced from a diff names a column
\* whose is_generated flag is set in the schema, also when the edited row
\* carries a value for that column.
C16_GeneratedNeverWritten ==
    (op = "emit" /\ pc = "emitted") =>
        \A i \in 1..Len(out) :
            ColumnsWritten(out[i]) \cap GeneratedColumns(schema, out[i].table) = {}

\* C17: for a table of the schema whose primary key is empty, diff returns no
\* change, whatever rows the two datasets hold, and no statement is generated
\* for it.
C17_NoPrimaryKeySkipped ==
    (op = "emit" /\ pc = "emitted") =>
        /\ \A i \in 1..Len(changes) : TableOf(schema, changes[i].table).primaryKey # <<>>
        /\ \A i \in 1..Len(out) : TableOf(schema, out[i].table).primaryKey # <<>>

\* ------------------------------------------------------------------------
\* Helpers of the claims about the file layouts
\* ------------------------------------------------------------------------
\* the FK columns of the dominant edge of a table
DominantFkColumns(T, t) ==
    IF getDominantParent(T, t) = NoEdge THEN {}
    ELSE Range(getDominantParent(T, t).foreignKeyColumns)

ChildTableKeys(T, t) ==
    {toCamelCase(getChildren(T, t)[i].childTable) : i \in 1..Len(getChildren(T, t))}

\* the shape of a nested row of table t and of the rows nested in it
RECURSIVE NestedShape(_, _, _, _, _)
NestedShape(S, T, flat, node, t) ==
    LET cols == ColumnNames(TableOf(S, t)) \ DominantFkColumns(T, t)
        kids == getChildren(T, t)
    IN  /\ ChildTableKeys(T, t) \cap ColumnNames(TableOf(S, t)) = {}
        /\ DOMAIN node \cap DominantFkColumns(T, t) = {}
        /\ DOMAIN node = cols \cup ChildTableKeys(T, t)
        /\ \E r \in RowSet(flat, t) : \A c \in cols : node[c] = r[c]
        /\ \A i \in 1..Len(kids) :
              LET list == node[toCamelCase(kids[i].childTable)]
              IN  \A j \in 1..Len(list) :
                      NestedShape(S, T, flat, list[j], kids[i].childTable)

\* C18: every row that toNested emits for table T has each column of T other
\* than the FK columns of T's dominant edge as a key holding the flat row's
\* value, has none of those FK columns as a key, and has as its only other
\* keys the camelCase names of T's dominant child tables, each holding a list
\* of such rows; a child-table key never replaces a column.
C18_NestedRowShape ==
    (op = "layout" /\ pc # "start" /\ ~dumped.flat) =>
        LET T == buildOwnershipTree(schema)
        IN  \A k \in 1..Len(T.roots) :
                LET list == file.data[toCamelCase(T.roots[k])]
                IN  \A i \in 1..Len(list) :
                        NestedShape(schema, T, in1, list[i], T.roots[k])

\* C19: whatever the letter case of the schema's table names, a file in flat
\* layout parses to the rows of every table it lists, so a flat dump parsed
\* back gives the dumped dataset, and a file in nested layout is detected as
\* nested and parsed through the flattener.
C19_LayoutDetected ==
    (op = "layout" /\ pc = "parsed") =>
        IF dumped.flat
        THEN \A t \in Range(TableNames(schema)) : RowsOf(dataset, t) = in1[t]
        ELSE result = "nested"

\* ------------------------------------------------------------------------
\* Helpers of the claims about dominance and the spanning of the tree
\* ------------------------------------------------------------------------
\* the entries of classifiedRelationships that are compositions of a child
CompositionsOf(classified, child) ==
    {j \in 1..Len(classified) :
        /\ classified[j].relationship.fromTable = child
        /\ IsOwning(classified[j].relationship)}

Arity(rel) == Len(rel.fromColumns)

ChildEdgesTo(T, P, C) ==
    {i \in 1..Len(getChildren(T, P)) : getChildren(T, P)[i].childTable = C}

\* C24: every table is in roots or has a dominant parent, never both; roots
\* are the tables without dominant parent, each once, in ascending name order;
\* getChildren(P) holds an edge to C exactly when getDominantParent(C) is an
\* edge with parent P, it holds it once, and the two edges are the same.
C24_TreeSpansTables ==
    (op = "tree" /\ pc = "built") =>
        LET T == out.tree
            tables == Range(TableNames(schema))
        IN  /\ \A t \in tables :
                  (t \in Range(T.roots)) <=> (getDominantParent(T, t) = NoEdge)
            /\ Range(T.roots) \subseteq tables
            /\ \A i, j \in 1..Len(T.roots) :
                  i < j => NameRank(T.roots[i]) < NameRank(T.roots[j])
            /\ \A P \in tables : \A C \in tables :
                  LET at == ChildEdgesTo(T, P, C)
                      up == getDominantParent(T, C)
                  IN  /\ (at # {}) <=> (up # NoEdge /\ up.parentTable = P)
                      /\ Cardinality(at) <= 1
                      /\ \A i \in at : getChildren(T, P)[i] = up

\* a tree of two levels: a root with a child that has a child of its own
C24_Witness ==
    /\ op = "tree" /\ pc = "built"
    /\ Len(out.tree.roots) = 1
    /\ \E C \in Range(TableNames(schema)) : \E G \in Range(TableNames(schema)) :
          /\ ChildEdgesTo(out.tree, out.tree.roots[1], C) # {}
          /\ ChildEdgesTo(out.tree, C, G) # {}

\* ------------------------------------------------------------------------
\* Helpers of the claim about the ordering policy
\* ------------------------------------------------------------------------
Occurrences(seq, c) == Cardinality({i \in 1..Len(seq) : seq[i] = c})

KindRank(c) == IF c.type = "delete" THEN 1 ELSE IF c.type = "update" THEN 2 ELSE 3

\* table a references table b through a path of at most n foreign keys
RECURSIVE RefersTo(_, _, _, _)
RefersTo(S, a, b, n) ==
    /\ n > 0
    /\ \E i \in 1..Len(S.relationships) :
          /\ S.relationships[i].fromTable = a
          /\ \/ S.relationships[i].toTable = b
             \/ RefersTo(S, S.relationships[i].toTable, b, n - 1)

\* C22: orderChangesByDependency returns exactly the changes it was given,
\* all deletes, then all updates, then all inserts; no delete of a table comes
\* before a delete of a table that references it, no insert into a table comes
\* before an insert into a table it references, and the updates keep their
\* relative input order.
C22_OrderingPolicy ==
    (op = "order" /\ pc = "ordered") =>
        LET n == Len(schema.tables)
        IN  /\ Len(changes) = Len(in1)
            /\ \A c \in Range(in1) \cup Range(changes) :
                  Occurrences(changes, c) = Occurrences(in1, c)
            /\ \A i, j \in 1..Len(changes) :
                  i < j =>
                    /\ KindRank(changes[i]) <= KindRank(changes[j])
                    /\ (changes[i].type = "delete" /\ changes[j].type = "delete") =>
                          ~RefersTo(schema, changes[j].table, changes[i].table, n)
                    /\ (changes[i].type = "insert" /\ changes[j].type = "insert") =>
                          ~RefersTo(schema, changes[i].table, changes[j].table, n)
            /\ SelectSeq(changes, LAMBDA c : c.type = "update")
                  = SelectSeq(in1, LAMBDA c : c.type = "update")

\* the change set <<insert, delete of a parent, delete of its grandchild>>
\* came back reversed
C22_Witness ==
    /\ op = "order" /\ pc = "ordered"
    /\ Len(in1) = 3
    /\ in1[1].type = "insert"
    /\ in1[2].type = "delete" /\ in1[2].table = "Organization"
    /\ in1[3].type = "delete" /\ in1[3].table = "Task"
    /\ changes = <<in1[3], in1[2], in1[1]>>

\* ------------------------------------------------------------------------
\* Helpers of the claims about the diff
\* ------------------------------------------------------------------------
\* two values differ: structured values by their content, whatever the order
\* of their keys; other values by identity
ValuesDiffer(a, b) ==
    IF IsObject(a) /\ IsObject(b)
    THEN Range(ObjectEntries[a]) # Range(ObjectEntries[b])
    ELSE a # b

\* the rows of a dataset's table with a primary-key value
RowsWithKey(flat, t, pk, key) == {r \in Range(RowsOf(flat, t)) : PkKey(r, pk) = key}

\* the changes a keyed, minimal diff holds for one table and one key
ExpectedChanges(t, pk, key) ==
    LET base == RowsWithKey(in1, t, pk, key)
        modified == RowsWithKey(in2, t, pk, key)
    IN  IF base = {} /\ modified = {} THEN {}
        ELSE IF base = {}
        THEN {[type |-> "insert", table |-> t, row |-> r] : r \in modified}
        ELSE IF modified = {}
        THEN {[type |-> "delete", table |-> t,
               primaryKey |-> [c \in Range(pk) |-> r[c]], oldRow |-> r] : r \in base}
        ELSE LET old == CHOOSE r \in base : TRUE
                 new == CHOOSE r \in modified : TRUE
                 cols == {c \in (DOMAIN old \cup DOMAIN new) \ Range(pk) :
                             ValuesDiffer(Get(old, c), Get(new, c))}
             IN  IF cols = {} THEN {}
                 ELSE {[type |-> "update", table |-> t,
                        primaryKey |-> [c \in Range(pk) |-> old[c]],
                        oldValues |-> [c \in cols |-> Get(old, c)],
                        newValues |-> [c \in cols |-> Get(new, c)]]}

DiffKeys(t, pk) ==
    {PkKey(r, pk) : r \in Range(RowsOf(in1, t)) \cup Range(RowsOf(in2, t))}

\* C23: for every table of the schema and every primary-key value, diff emits
\* one Insert carrying the full modified row if the key is only in modified,
\* one Delete carrying the key and the full base row if it is only in base,
\* one Update if it is in both and some non-PK column differs, and nothing
\* otherwise; the old and new values of an Update have the same key set, which
\* is exactly the non-PK columns whose values differ.
C23_DiffKeyedMinimal ==
    (op = "json" /\ pc = "diffed") =>
        LET expected ==
                UNION {ExpectedChanges(t, TableOf(schema, t).primaryKey, key) :
                         <<t, key>> \in
                           UNION {{<<u, k>> : k \in DiffKeys(u, TableOf(schema, u).primaryKey)}
                                  : u \in Range(TableNames(schema))}}
        IN  /\ Range(changes) = expected
            /\ Len(changes) = Cardinality(expected)
            /\ \A i \in 1..Len(changes) :
                  changes[i].type = "update" =>
                    /\ DOMAIN changes[i].oldValues = DOMAIN changes[i].newValues
                    /\ DOMAIN changes[i].oldValues
                          \cap Range(TableOf(schema, changes[i].table).primaryKey) = {}

\* C25: when a non-PK column holds a JSON object on both sides and the two
\* objects have the same keys with equal values, diff reports no change for
\* that column, whatever the order in which the keys were written.
C25_KeyOrderIgnored ==
    (op = "json" /\ pc = "diffed") =>
        \A i \in 1..Len(changes) :
            changes[i].type = "update" =>
                \A c \in DOMAIN changes[i].oldValues :
                    (IsObject(changes[i].oldValues[c]) /\ IsObject(changes[i].newValues[c]))
                        => Range(ObjectEntries[changes[i].oldValues[c]])
                             # Range(ObjectEntries[changes[i].newValues[c]])

\* ------------------------------------------------------------------------
\* Helpers of the claims about the edits of a nested file
\* ------------------------------------------------------------------------
\* the change is about the collapsed row or about one of its descendants
InCollapsedSubtree(c) ==
    \/ c.table = out.table /\ c.primaryKey.id = out.id
    \/ /\ out.table = "Project" /\ c.table = "Task"
       /\ \E k \in 1..Len(in1.Task) :
             in1.Task[k].id = c.primaryKey.id /\ in1.Task[k].projectId = out.id

\* C26: if a child row that exists in the base together with its descendants
\* is replaced in the edited file by a RefMarker with that row's primary key
\* under the same parent, the change set of base against edited file holds no
\* Update and no Delete for that row or for any of its descendants.
C26_RefMarkerKeepsSubtree ==
    (op = "edit" /\ pc = "diffed" /\ out.kind = "ref") =>
        \A n \in 1..Len(changes) :
            changes[n].type \in {"update", "delete"} => ~InCollapsedSubtree(changes[n])

\* the flattened rows of a table with a key
FlattenedWithId(t, id) == {r \in Range(RowsOf(dataset, t)) : Get(r, "id") = id}

\* C29: every row that fromNested flattens under a parent row has, in each FK
\* column of the introducing edge, the parent's value of the paired column,
\* whatever value the nested row itself carries for that column; so moving an
\* unchanged child row from one parent to another yields exactly one Update,
\* for that child, whose changed columns are exactly the FK columns of the edge.
C29_PositionDecidesParent ==
    (op = "edit" /\ pc = "diffed") =>
        /\ \A pl \in ProjectPlaces(in2) :
              LET parent == in2.organization[pl[1]]
                  row == parent.project[pl[2]]
              IN  /\ FlattenedWithId("Project", row.id) # {}
                  /\ \A r \in FlattenedWithId("Project", row.id) :
                        Get(r, "organizationId") = parent.id
        /\ \A pl \in TaskPlaces(in2) :
              LET parent == in2.organization[pl[1]].project[pl[2]]
                  row == parent.task[pl[3]]
              IN  /\ FlattenedWithId("Task", row.id) # {}
                  /\ \A r \in FlattenedWithId("Task", row.id) :
                        Get(r, "projectId") = parent.id
        /\ out.kind = "move" =>
              changes = << [type |-> "update", table |-> out.table,
                            primaryKey |-> [id |-> out.id],
                            oldValues |-> (out.column :> out.from),
                            newValues |-> (out.column :> out.to)] >>

\* a Project row that has a Task was moved to the other Organization together
\* with the organizationId of its old parent, and the diff was taken
C29_Witness ==
    /\ op = "edit" /\ pc = "diffed"
    /\ out.kind = "move" /\ out.table = "Project" /\ out.carried
    /\ \E k \in 1..Len(in1.Task) : in1.Task[k].projectId = out.id
    /\ Len(changes) = 1

\* C27: for every database content, also with child rows whose dominant FK
\* column is NULL, after a dump without limits in nested or flat layout, with
\* no edit of the file and no write to the database in between, preview of
\* the dumped file returns an empty change set.
C27_FreshDumpPreviewsEmpty ==
    (/\ op = "preview" /\ result = "ok"
     /\ dumped # NoDump /\ edits = 0 /\ writes = 0)
        => ((dumped.limit = -1 /\ dumped.nestedLimit = -1) => previewed = <<>>)

\* the rows reset read are not the rows the database held at its BEGIN: the
\* ChangeSet it applies is not the one of the database its transaction began on
WrittenBeforeBegin ==
    changes # enginePreview(schema, fetchCurrentData(schema, snapshot), dataset)

\* C30: the database state that reset diffs against is the state its
\* transaction writes to: if another client commits a row between reset's read
\* of the current data and its BEGIN, reset never reports success while the
\* database differs from the file.
C30_ResetAtomic ==
    (/\ op = "reset" /\ pc = "idle" /\ result = "ok" /\ Len(changes) > 0
     /\ WrittenBeforeBegin)
        => \A t \in Range(TableNames(schema)) : db[t] = Range(RowsOf(dataset, t))

\* C28: after a sync of a file has succeeded, a preview or a second sync of
\* the same unmodified file returns an empty change set and sends no INSERT,
\* UPDATE or DELETE, whatever other clients have written to the database in
\* between.
C28_SyncIdempotent ==
    \A i, j \in 1..Len(out) :
        (/\ i < j
         /\ out[i].cmd \in {"sync", "cliSync"} /\ out[i].result = "ok"
         /\ out[j].file = out[i].file)
            => (out[j].changes = <<>> /\ out[j].dml = 0)

====
